---- MODULE Spec2Model ----
(***************************************************************************)
(* A model of the exponential-decay estimator of the T1 scripts            *)
(* (qiskit-experiment/test_t1_direct.py): fit_exponential_decay, the       *)
(* scipy optimizer it calls, and its caller run_simple_t1_experiment.      *)
(*                                                                         *)
(* Floating-point values are tagged pairs: Fin(n) is the finite value n    *)
(* (in abstract units), PosInf is +inf, NaN is nan; None is Python's None. *)
(* The arguments of a call are sequences of finite numbers (integers in    *)
(* abstract units).  The numerical result of scipy's curve_fit is not      *)
(* computed: once curve_fit's argument checks pass, it either raises       *)
(* RuntimeError (no convergence) or returns some (popt, pcov).             *)
(***************************************************************************)
EXTENDS Integers, Sequences, FiniteSets, TLC

\* Longest argument sequence of a call (the experiment's 21 delay points are
\* scaled down to MaxLen points).
MaxLen == 4

\* ------------------------------------------------------------- values

Fin(n) == <<"fin", n>>
PosInf == <<"inf", 1>>
NaN == <<"nan", 0>>
None == <<"None", 0>>

IsFin(x) == x[1] = "fin"

\* Python's  x > 0  on a float: False for nan, True for +inf.
Gt0(x) == (IsFin(x) /\ x[2] > 0) \/ x = PosInf

\* floor of the square root of a natural number
ISqrt(n) == CHOOSE r \in 0..n : r * r <= n /\ (r + 1) * (r + 1) > n

\* np.sqrt: sqrt(+inf) = +inf, sqrt(nan) = nan, sqrt of a negative is nan.
Sqrt(x) ==
    IF x = PosInf THEN PosInf
    ELSE IF IsFin(x) /\ x[2] >= 0 THEN Fin(ISqrt(x[2]))
    ELSE NaN

\* ------------------------------------------------------------- inputs

\* Delay values a client may pass (a negative, zero, a positive one).
DelayValues == {-1, 0, 1}

\* Probability values (two distinct values; all-equal sequences are flat).
ProbValues == {0, 1}

SeqsUpTo(S, n) == UNION {[1..k -> S] : k \in 0..n}

\* np.linspace(0, 200e-6, n): n increasing delays starting at 0.
Linspace(n) == [i \in 1..n |-> i - 1]

\* ---------------------------------------------------------- optimizer

\* numpy broadcasting of two one-dimensional shapes
Broadcastable(n, m) == n = m \/ n = 1 \/ m = 1
BroadcastLen(n, m) == IF n = 1 THEN m ELSE n

\* Number of free parameters of exponential_decay(t, A, T1, B): len(p0).
NParams == 3

\* The exception curve_fit raises before it optimizes, or "none":
\* empty ydata, fewer data points than parameters, shapes that do not
\* broadcast in  func(xdata, *p) - ydata,  fewer residuals than parameters.
ArgCheck(d, p) ==
    IF Len(p) = 0 THEN "ValueError"
    ELSE IF Len(p) # 1 /\ NParams > Len(p) THEN "TypeError"
    ELSE IF ~Broadcastable(Len(d), Len(p)) THEN "ValueError"
    ELSE IF NParams > BroadcastLen(Len(d), Len(p)) THEN "TypeError"
    ELSE "none"

\* Values the optimizer may return for a parameter and for pcov[1,1].
AmpValues == {Fin(0), Fin(1)}
TValues == {Fin(-1), Fin(0), Fin(1), PosInf, NaN}
OffValues == {Fin(0), Fin(1)}
CovValues == {Fin(-1), Fin(0), Fin(4), PosInf, NaN}

\* pcov[1,1] of a returned fit: with no more residuals than parameters
\* curve_fit fills pcov with inf (the covariance cannot be estimated).
CovOutcomes(d, p) ==
    IF BroadcastLen(Len(d), Len(p)) <= NParams THEN {PosInf} ELSE CovValues

NoFit == [raised |-> "none", popt |-> <<None, None, None>>, pcov11 |-> None]

Raise(e) == [raised |-> e, popt |-> <<None, None, None>>, pcov11 |-> None]

\* Outcomes of  curve_fit(exponential_decay, d, p, p0=p0, maxfev=10000).
CurveFitOutcomes(d, p) ==
    IF ArgCheck(d, p) # "none" THEN {Raise(ArgCheck(d, p))}
    ELSE {Raise("RuntimeError")} \cup
         {[raised |-> "none", popt |-> <<a, t, b>>, pcov11 |-> c] :
             a \in AmpValues, t \in TValues, b \in OffValues,
             c \in CovOutcomes(d, p)}

\* ------------------------------------------------------------ estimator

VARIABLES
    caller,         \* who calls the estimator: "client" or "run_simple_t1_experiment"
    delays,         \* argument delays
    probabilities,  \* argument probabilities
    pc,             \* position in fit_exponential_decay / its caller
    optCalls,       \* number of curve_fit invocations of this call
    opt,            \* what curve_fit did
    ret,            \* the triple fit_exponential_decay returned
    escaped,        \* an exception left fit_exponential_decay
    out,            \* lines printed to stdout
    drawn,          \* T1 of the fit curve drawn on the plot, or None
    expRet          \* what run_simple_t1_experiment returned

varsFit == <<caller, delays, probabilities, pc, optCalls, opt, ret, escaped,
             out, drawn, expRet>>

NoneTriple == <<None, None, None>>

\* except Exception: every exception curve_fit raises is an Exception.
CatchesOnlyRuntimeError(e) == e = "RuntimeError"
Catches(e) == e \in {"ValueError", "TypeError", "RuntimeError"}

\* T1_error = np.sqrt(pcov[1,1]) if pcov[1,1] > 0 else 0
T1Error(c) == IF Gt0(c) THEN Sqrt(c) ELSE Fin(0)

\* The failure kind the returned value carries for the caller: the code has
\* one failure value, (None, None, None), for every failure.
FailureKind(r) == IF r = NoneTriple THEN "None" ELSE "ok"

InitFit ==
    /\ caller \in {"client", "run_simple_t1_experiment"}
    /\ \/ /\ caller = "client"
          /\ delays \in SeqsUpTo(DelayValues, MaxLen)
          /\ probabilities \in SeqsUpTo(ProbValues, MaxLen)
       \/ /\ caller = "run_simple_t1_experiment"
          /\ delays = Linspace(MaxLen)
          /\ probabilities \in [1..MaxLen -> ProbValues]
    /\ pc = "call"
    /\ optCalls = 0
    /\ opt = NoFit
    /\ ret = NoneTriple
    /\ escaped = FALSE
    /\ out = <<>>
    /\ drawn = None
    /\ expRet = <<None, None>>

\* try: p0 = [...]; popt, pcov = curve_fit(...)
CurveFit ==
    /\ pc = "call"
    /\ optCalls' = optCalls + 1
    /\ \E o \in CurveFitOutcomes(delays, probabilities) :
          /\ opt' = o
          /\ pc' = IF o.raised = "none" THEN "fitted" ELSE "except"
    /\ UNCHANGED <<caller, delays, probabilities, ret, escaped, out, drawn, expRet>>

\* A, T1_fit, B = popt; T1_error = ...; return T1_fit, T1_error, popt
ReturnFit ==
    /\ pc = "fitted"
    /\ ret' = <<opt.popt[2], T1Error(opt.pcov11), opt.popt>>
    /\ pc' = "returned"
    /\ UNCHANGED <<caller, delays, probabilities, optCalls, opt, escaped, out,
                   drawn, expRet>>

\* except Exception as e: print(...); return None, None, None
Except ==
    /\ pc = "except"
    /\ IF Catches(opt.raised)
       THEN /\ out' = Append(out, <<"Fitting failed", opt.raised>>)
            /\ ret' = NoneTriple
            /\ pc' = "returned"
            /\ UNCHANGED escaped
       ELSE /\ escaped' = TRUE
            /\ pc' = "raised"
            /\ UNCHANGED <<out, ret>>
    /\ UNCHANGED <<caller, delays, probabilities, optCalls, opt, drawn, expRet>>

\* A client that called the estimator directly has its result.
ClientDone ==
    /\ pc = "returned"
    /\ caller = "client"
    /\ pc' = "done"
    /\ UNCHANGED <<caller, delays, probabilities, optCalls, opt, ret, escaped,
                   out, drawn, expRet>>

\* run_simple_t1_experiment: if t1_fit is not None: print the results
Report ==
    /\ pc = "returned"
    /\ caller = "run_simple_t1_experiment"
    /\ out' = IF ret[1] # None
              THEN Append(out, <<"Fitted T1", ret[1], ret[2]>>)
              ELSE out
    /\ pc' = "plot"
    /\ UNCHANGED <<caller, delays, probabilities, optCalls, opt, ret, escaped,
                   drawn, expRet>>

\* run_simple_t1_experiment: plot the data; if t1_fit is not None: plot the fit
Plot ==
    /\ pc = "plot"
    /\ drawn' = IF ret[1] # None THEN ret[3][2] ELSE None
    /\ out' = Append(out, <<"Plot saved">>)
    /\ pc' = "summary"
    /\ UNCHANGED <<caller, delays, probabilities, optCalls, opt, ret, escaped,
                   expRet>>

\* run_simple_t1_experiment: return t1_fit, t1_error
ExperimentReturn ==
    /\ pc = "summary"
    /\ expRet' = <<ret[1], ret[2]>>
    /\ pc' = "done"
    /\ UNCHANGED <<caller, delays, probabilities, optCalls, opt, ret, escaped,
                   out, drawn>>

NextFit ==
    \/ CurveFit
    \/ ReturnFit
    \/ Except
    \/ ClientDone
    \/ Report
    \/ Plot
    \/ ExperimentReturn

\* ------------------------------------------------- initial guess (p0)

VARIABLES
    guess,          \* third argument a caller passes for the initial guess, or None
    p0,             \* the initial guess handed to curve_fit, or None
    gpc             \* binding of the call's arguments: "bind", "bound", "raised"

varsGuess == <<guess, p0, gpc>>

\* p0 = [1.0, 50e-6, 0.0]  (A, T1 in microseconds, B)
DefaultP0 == <<Fin(1), Fin(50), Fin(0)>>

\* Initial guesses a caller may want to use instead of the default.
GuessValues == {<<Fin(1), Fin(20), Fin(0)>>, <<Fin(1), Fin(100), Fin(0)>>,
                <<Fin(0), Fin(50), Fin(1)>>}

\* def fit_exponential_decay(delays, probabilities): two parameters.
FitArity == 2

\* Number of positional arguments of the call.
NArgs(g) == IF g = None THEN 2 ELSE 3

InitGuess ==
    /\ InitFit
    /\ guess \in {None} \cup GuessValues
    /\ guess # None => caller = "client"
    /\ p0 = None
    /\ gpc = "bind"

\* Python binds the call's arguments to (delays, probabilities); a call with
\* more arguments raises TypeError before the body runs.
Bind ==
    /\ gpc = "bind"
    /\ gpc' = IF NArgs(guess) = FitArity THEN "bound" ELSE "raised"
    /\ UNCHANGED <<guess, p0>>
    /\ UNCHANGED varsFit

\* p0 = [1.0, 50e-6, 0.0]; curve_fit(..., p0=p0, ...)
CurveFitP0 ==
    /\ gpc = "bound"
    /\ CurveFit
    /\ p0' = DefaultP0
    /\ UNCHANGED <<guess, gpc>>

\* The rest of the call and of its caller does not touch p0.
AfterCurveFit ==
    /\ gpc = "bound"
    /\ ReturnFit \/ Except \/ ClientDone \/ Report \/ Plot \/ ExperimentReturn
    /\ UNCHANGED varsGuess

NextGuess ==
    \/ Bind
    \/ CurveFitP0
    \/ AfterCurveFit

\* ------------------------------------------------------------------ XEB
\* AzureQuantum/backend.py: compute_xeb_score and run_xeb_on_backend.
\* Probabilities are exact fractions <<"frac", n, d>> in lowest terms; a
\* dict is a function from its keys to its values.

RECURSIVE Gcd(_, _)
Gcd(a, b) == IF b = 0 THEN a ELSE Gcd(b, a % b)

\* n / d  (d > 0, n >= 0)
Frac(n, d) == LET g == Gcd(n, d) IN <<"frac", n \div g, d \div g>>
FZero == Frac(0, 1)
FAdd(x, y) == Frac(x[2] * y[3] + y[2] * x[3], x[3] * y[3])
FMul(x, y) == Frac(x[2] * y[2], x[3] * y[3])

IsNone(x) == x[1] = "None"

\* d.get(k, 0)
Get(d, k) == IF k \in DOMAIN d THEN d[k] ELSE FZero

\* sum(exp.get(b, 0) * ideal.get(b, 0) for b in keys)
RECURSIVE SumOverKeys(_, _, _)
SumOverKeys(exp, ideal, keys) ==
    IF keys = {} THEN FZero
    ELSE LET k == CHOOSE x \in keys : TRUE
         IN FAdd(FMul(Get(exp, k), Get(ideal, k)),
                 SumOverKeys(exp, ideal, keys \ {k}))

ScoreOverMeasured(exp, ideal, bits) == SumOverKeys(exp, ideal, DOMAIN exp)

RECURSIVE SumProducts(_, _, _, _)
SumProducts(exp, ideal, bits, i) ==
    IF i > Len(bits) THEN FZero
    ELSE FAdd(FMul(Get(exp, bits[i]), Get(ideal, bits[i])),
              SumProducts(exp, ideal, bits, i + 1))

ComputeXebScore(exp, ideal, bits) == SumProducts(exp, ideal, bits, 1)

\* Outcome keys of the distributions: three bitstrings of the list and one
\* outcome that is in no bitstring list.
ScoreKeys == {"00", "01", "11", "0 1"}
ScoreValues == {Frac(0, 1), Frac(1, 2), Frac(1, 1)}

\* Longest bitstring list handed to compute_xeb_score.
MaxBits == 2

\* Dicts over a set of keys: every function from a subset of the keys.
DictsOver(K, V) == UNION {[D -> V] : D \in SUBSET K}

VARIABLES
    sExp,           \* compute_xeb_score: exp_probs_dict
    sIdeal,         \* compute_xeb_score: ideal_probs_dict
    sBits,          \* compute_xeb_score: bitstrings
    sScore,         \* the returned score, or None
    spc             \* "call", "done"

varsScore == <<sExp, sIdeal, sBits, sScore, spc>>

InitScore ==
    /\ sExp \in DictsOver({"00", "01", "0 1"}, ScoreValues)
    /\ sIdeal \in DictsOver({"00", "01", "11"}, ScoreValues)
    /\ sBits \in SeqsUpTo({"00", "01", "11"}, MaxBits)
    /\ sScore = None
    /\ spc = "call"

\* xeb = sum(...); return xeb
ScoreCall ==
    /\ spc = "call"
    /\ sScore' = ComputeXebScore(sExp, sIdeal, sBits)
    /\ spc' = "done"
    /\ UNCHANGED <<sExp, sIdeal, sBits>>

IdleScore ==
    /\ sExp = <<>> /\ sIdeal = <<>> /\ sBits = <<>> /\ sScore = None
    /\ spc = "idle"

\* run_xeb_on_backend -------------------------------------------------

\* Largest count of one outcome the backend reports.
MaxCount == 2

\* bitstrings = [format(i, "0nb") ...] of the main script, for two qubits.
MainBitstrings == <<"00", "01", "10", "11">>

\* Ideal distributions of the circuit (|psi|^2 over the bitstrings).
IdealDists ==
    { [b \in {"00", "01", "10", "11"} |-> Frac(1, 4)],
      [b \in {"00", "01", "10", "11"} |->
          IF b \in {"00", "11"} THEN Frac(1, 2) ELSE Frac(0, 1)] }

\* Outcomes a backend may report (one of them in another format).
CountKeys == {"00", "11", "0 1"}

RECURSIVE SumValues(_, _)
SumValues(d, keys) ==
    IF keys = {} THEN 0
    ELSE LET k == CHOOSE x \in keys : TRUE
         IN d[k] + SumValues(d, keys \ {k})

\* total_counts = sum(counts_exp.values())
TotalCounts(c) == SumValues(c, DOMAIN c)

\* Exceptions of the Azure SDK calls and of the arithmetic.
XebExceptions == {"BackendNotFound", "JobFailed", "ResultTimeout",
                  "ZeroDivisionError"}

\* except Exception as e
XebCatchesSdkOnly(e) == e \in {"BackendNotFound", "JobFailed", "ResultTimeout"}
XebCatches(e) == e \in XebExceptions

VARIABLES
    xpc,            \* position in run_xeb_on_backend
    xideal,         \* ideal_probs_dict
    xcounts,        \* counts_exp
    xprobs,         \* exp_probs_dict
    xexc,           \* the exception raised inside the try block, or "none"
    xret,           \* the returned pair
    xescaped        \* an exception left run_xeb_on_backend

varsXeb == <<xpc, xideal, xcounts, xprobs, xexc, xret, xescaped>>

InitXeb ==
    /\ xpc = "submit"
    /\ xideal \in IdealDists
    /\ xcounts = <<>>
    /\ xprobs = <<>>
    /\ xexc = "none"
    /\ xret = <<None, None>>
    /\ xescaped = FALSE

IdleXeb ==
    /\ xpc = "idle" /\ xideal = <<>> /\ xcounts = <<>> /\ xprobs = <<>>
    /\ xexc = "none" /\ xret = <<None, None>> /\ xescaped = FALSE

\* job = provider.get_backend(backend_name).run(qc, shots=shots)
XebSubmit ==
    /\ xpc = "submit"
    /\ \/ xpc' = "job" /\ UNCHANGED xexc
       \/ \E e \in {"BackendNotFound", "JobFailed"} :
             xexc' = e /\ xpc' = "except"
    /\ UNCHANGED <<xideal, xcounts, xprobs, xret, xescaped>>

\* result = job.result(); counts_exp = result.get_counts()
XebResult ==
    /\ xpc = "job"
    /\ \/ /\ xcounts' \in DictsOver(CountKeys, 0..MaxCount)
          /\ xpc' = "counts"
          /\ UNCHANGED xexc
       \/ /\ xexc' \in {"JobFailed", "ResultTimeout"}
          /\ xpc' = "except"
          /\ UNCHANGED xcounts
    /\ UNCHANGED <<xideal, xprobs, xret, xescaped>>

\* total_counts = sum(...); exp_probs_dict = {k: v / total_counts ...}
XebProbabilities ==
    /\ xpc = "counts"
    /\ IF DOMAIN xcounts # {} /\ TotalCounts(xcounts) = 0
       THEN /\ xexc' = "ZeroDivisionError"
            /\ xpc' = "except"
            /\ UNCHANGED xprobs
       ELSE /\ xprobs' = [k \in DOMAIN xcounts |->
                             Frac(xcounts[k], TotalCounts(xcounts))]
            /\ xpc' = "probs"
            /\ UNCHANGED xexc
    /\ UNCHANGED <<xideal, xcounts, xret, xescaped>>

\* xeb = compute_xeb_score(...); print ...; return xeb, exp_probs_dict
XebScoreReturn ==
    /\ xpc = "probs"
    /\ xret' = <<ComputeXebScore(xprobs, xideal, MainBitstrings),
                 <<"dict", xprobs>>>>
    /\ xpc' = "returned"
    /\ UNCHANGED <<xideal, xcounts, xprobs, xexc, xescaped>>

\* except Exception as e: print(...); return None, None
XebExcept ==
    /\ xpc = "except"
    /\ IF XebCatches(xexc)
       THEN xret' = <<None, None>> /\ xpc' = "returned" /\ UNCHANGED xescaped
       ELSE xescaped' = TRUE /\ xpc' = "raised" /\ UNCHANGED xret
    /\ UNCHANGED <<xideal, xcounts, xprobs, xexc>>

\* ------------------------------------------------------- backend choice
\* qiskit-experiment/test_t1.py select_backend, test_t1_simple.py
\* run_t1_experiment, qiskit-related/utils.py.

BackendTypes == {"local_noisy", "local_ideal", "ibm_simulator", "ibm_real",
                 "aer", ""}

\* What the IBM Quantum service does in this run: it answers, or one of its
\* calls raises.
ServiceOutcomes == {"ok", "AccountNotFoundError", "QiskitBackendNotFoundError",
                    "ConnectionError"}

\* def get_local_aer_backend(seed_simulator): one required parameter.
LocalAerArity == 1

\* The getter a script calls for a backend type, and the number of arguments
\* it passes.
Getter(script, t) ==
    IF script = "select_backend"
    THEN CASE t = "local_ideal" -> <<"get_local_aer_backend", 1>>
           [] t = "ibm_simulator" -> <<"get_simulator_backend", 0>>
           [] t = "ibm_real" -> <<"get_least_busy_backend", 0>>
           [] OTHER -> <<"create_noisy_backend", 0>>
    ELSE CASE t = "local_noisy" -> <<"create_thermal_noise_backend", 0>>
           [] t = "local_ideal" -> <<"get_local_aer_backend", 0>>
           [] t = "ibm_real" -> <<"get_least_busy_backend", 0>>
           [] OTHER -> <<"get_simulator_backend", 0>>

\* The call of the getter stands inside  try: ... except Exception.
InTry(script, t) ==
    script = "select_backend" /\ t \in {"ibm_simulator", "ibm_real"}

\* The getter select_backend falls back to in its except clause.
FallbackSwapped(t) ==
    IF t = "ibm_simulator" THEN <<"create_noisy_backend", 0>>
    ELSE <<"get_local_aer_backend", 1>>
Fallback(t) ==
    IF t = "ibm_simulator" THEN <<"get_local_aer_backend", 1>>
    ELSE <<"create_noisy_backend", 0>>

\* Calling a getter: [raised, backend].
CallGetter(g, service) ==
    CASE g[1] = "get_local_aer_backend" ->
            IF g[2] = LocalAerArity
            THEN [raised |-> "none", backend |-> "aer_ideal"]
            ELSE [raised |-> "TypeError", backend |-> "none"]
      [] g[1] \in {"create_noisy_backend", "create_thermal_noise_backend"} ->
            [raised |-> "none", backend |-> "aer_noisy"]
      [] g[1] = "get_simulator_backend" ->
            IF service = "ok"
            THEN [raised |-> "none", backend |-> "ibm_simulator"]
            ELSE [raised |-> service, backend |-> "none"]
      [] OTHER ->
            IF service = "ok"
            THEN [raised |-> "none", backend |-> "ibm_device"]
            ELSE [raised |-> service, backend |-> "none"]

VARIABLES
    bscript,        \* "select_backend" or "run_t1_experiment"
    btype,          \* backend_type
    bservice,       \* what the IBM service does
    bpc,            \* position in the function
    backend,        \* the backend obtained, or "none"
    bexc,           \* the exception that left the function, or "none"
    bcaught,        \* the exception caught by select_backend, or "none"
    bran            \* run_t1_experiment ran the experiment on the backend

varsBackend == <<bscript, btype, bservice, bpc, backend, bexc, bcaught, bran>>

InitBackend ==
    /\ bscript \in {"select_backend", "run_t1_experiment"}
    /\ btype \in BackendTypes
    /\ bservice \in ServiceOutcomes
    /\ bpc = "call"
    /\ backend = "none"
    /\ bexc = "none"
    /\ bcaught = "none"
    /\ bran = FALSE

IdleBackend ==
    /\ bscript = "select_backend" /\ btype = "" /\ bservice = "ok"
    /\ bpc = "idle" /\ backend = "none" /\ bexc = "none" /\ bcaught = "none"
    /\ bran = FALSE

\* The if/elif chain: print the choice and call the getter of the type.
Acquire ==
    /\ bpc = "call"
    /\ LET r == CallGetter(Getter(bscript, btype), bservice)
       IN IF r.raised = "none"
          THEN /\ backend' = r.backend
               /\ bpc' = IF bscript = "select_backend" THEN "returned"
                         ELSE "have_backend"
               /\ UNCHANGED <<bexc, bcaught>>
          ELSE IF InTry(bscript, btype)
          THEN /\ bcaught' = r.raised
               /\ bpc' = "handler"
               /\ UNCHANGED <<backend, bexc>>
          ELSE /\ bexc' = r.raised
               /\ bpc' = "raised"
               /\ UNCHANGED <<backend, bcaught>>
    /\ UNCHANGED <<bscript, btype, bservice, bran>>

\* except Exception as e: print(...); return <the local backend>
FallBack ==
    /\ bpc = "handler"
    /\ LET r == CallGetter(Fallback(btype), bservice)
       IN IF r.raised = "none"
          THEN backend' = r.backend /\ bpc' = "returned" /\ UNCHANGED bexc
          ELSE bexc' = r.raised /\ bpc' = "raised" /\ UNCHANGED backend
    /\ UNCHANGED <<bscript, btype, bservice, bcaught, bran>>

\* run_t1_experiment: print the backend, build the T1 experiment
SetUpExperiment ==
    /\ bpc = "have_backend"
    /\ bpc' = "setup"
    /\ UNCHANGED <<bscript, btype, bservice, backend, bexc, bcaught, bran>>

\* run_t1_experiment: exp_data = t1_exp.run(backend, ...)
RunExperiment ==
    /\ bpc = "setup"
    /\ bran' = TRUE
    /\ bpc' = "running"
    /\ UNCHANGED <<bscript, btype, bservice, backend, bexc, bcaught>>

\* ----------------------------------------------------- cross-talk noise
\* qiskit-experiment/test_crosstalk_direct.py create_crosstalk_backend.
\* A qiskit-aer NoiseModel keeps its local quantum errors by (instruction,
\* qubits): the error registered for (gate, q) is applied to q whenever the
\* gate acts on q.

\* n_qubits = 5
NQubits == 5

SingleQubitGates == <<"x", "y", "z", "h", "s", "t", "sx", "rz">>

\* crosstalk_strength in units of 0.001: the default and the main script's.
Strengths == {20, 15}

\* neighbors of target_qubit in the linear chain, left one first
NeighborsOf(t) ==
    (IF t > 0 THEN <<t - 1>> ELSE <<>>) \o
    (IF t < NQubits - 1 THEN <<t + 1>> ELSE <<>>)

VARIABLES
    ctpc,           \* "build", "built", "failed", "applied"
    ctStrength,     \* crosstalk_strength
    ctAcceptsInt,   \* whether add_quantum_error takes a bare int for qubits
    ctTarget,       \* loop variable target_qubit
    ctGate,         \* index of the loop variable gate
    ctNb,           \* index of the loop variable neighbor
    noise,          \* (gate, qubit) -> number of errors registered
    ctApplied,      \* the (gate, target) a circuit applied on the backend
    ctHit           \* the qubits that received the error on that gate

varsCrosstalk == <<ctpc, ctStrength, ctAcceptsInt, ctTarget, ctGate, ctNb,
                   noise, ctApplied, ctHit>>

GateSet == {SingleQubitGates[i] : i \in 1..Len(SingleQubitGates)}

NoNoise == [k \in GateSet \X (0..NQubits - 1) |-> 0]

InitCrosstalk ==
    /\ ctpc = "build"
    /\ ctStrength \in Strengths
    /\ ctAcceptsInt \in BOOLEAN
    /\ ctTarget = 0
    /\ ctGate = 1
    /\ ctNb = 1
    /\ noise = NoNoise
    /\ ctApplied = <<"none", 0>>
    /\ ctHit = {}

IdleCrosstalk ==
    /\ ctpc = "idle" /\ ctStrength = 20 /\ ctAcceptsInt = TRUE
    /\ ctTarget = 0 /\ ctGate = 1 /\ ctNb = 1
    /\ noise = <<>> /\ ctApplied = <<"none", 0>> /\ ctHit = {}

\* noise_model.add_quantum_error(crosstalk_error, gate, neighbor): the error
\* is registered for the instruction gate on the qubit neighbor.
AddQuantumError(n, gate, qubit) ==
    [n EXCEPT ![<<gate, qubit>>] = @ + 1]

AdvanceLoop(t, g, k) ==
    IF k < Len(NeighborsOf(t)) THEN <<t, g, k + 1>>
    ELSE IF g < Len(SingleQubitGates) THEN <<t, g + 1, 1>>
    ELSE <<t + 1, 1, 1>>

\* One pass of the innermost loop body (lines 52-58).
AddCrosstalkError ==
    /\ ctpc = "build"
    /\ ctTarget < NQubits
    /\ IF ctAcceptsInt
       THEN /\ noise' = AddQuantumError(noise, SingleQubitGates[ctGate],
                                        NeighborsOf(ctTarget)[ctNb])
            /\ LET nx == AdvanceLoop(ctTarget, ctGate, ctNb)
               IN ctTarget' = nx[1] /\ ctGate' = nx[2] /\ ctNb' = nx[3]
            /\ UNCHANGED ctpc
       ELSE /\ ctpc' = "failed"
            /\ UNCHANGED <<noise, ctTarget, ctGate, ctNb>>
    /\ UNCHANGED <<ctStrength, ctAcceptsInt, ctApplied, ctHit>>

\* backend.set_options(noise_model=noise_model); return backend
FinishBackend ==
    /\ ctpc = "build"
    /\ ctTarget = NQubits
    /\ ctpc' = "built"
    /\ UNCHANGED <<ctStrength, ctAcceptsInt, ctTarget, ctGate, ctNb, noise,
                   ctApplied, ctHit>>

\* The qubits on which the noise model applies an error when gate acts on
\* target: the qubits of the instruction, if an error is registered there.
ErrorQubits(n, gate, target) ==
    IF n[<<gate, target>>] > 0 THEN {target} ELSE {}

\* A circuit run on the backend applies one gate of the list to a target.
ApplyGate ==
    /\ ctpc = "built"
    /\ \E g \in GateSet, t \in 0..NQubits - 1 :
          /\ ctApplied' = <<g, t>>
          /\ ctHit' = ErrorQubits(noise, g, t)
    /\ ctpc' = "applied"
    /\ UNCHANGED <<ctStrength, ctAcceptsInt, ctTarget, ctGate, ctNb, noise>>

\* ----------------------------------------------- cross-talk measurement
\* qiskit-experiment/test_crosstalk_direct.py
\* create_crosstalk_measurement_circuits and simulate_crosstalk_effects.

MaxShots == 2

\* QuantumCircuit(3, 3): three qubits and a classical register c of 3 bits.
NCircuitQubits == 3
NCircuitClbits == 3

\* The keys of the circuits dictionary, in insertion order.
CircuitOps == <<"x", "y", "z", "h", "s">>
CircuitNames ==
    <<"reference",
      "x_on_q1", "x_10x_on_q1", "y_on_q1", "y_10x_on_q1",
      "z_on_q1", "z_10x_on_q1", "h_on_q1", "h_10x_on_q1",
      "s_on_q1", "s_10x_on_q1">>

\* What one shot measures: qubit -> "0" or "1".
Measurements == [0..NCircuitQubits - 1 -> {"0", "1"}]

\* The key of one shot in result.get_counts(). measure_all() adds a new
\* register meas and measures every qubit into it; the register c of the
\* constructor is never written. Registers are printed last-added first,
\* separated by a space, each with its highest bit first.
OutcomeString(m) ==
    [i \in 1..NCircuitQubits |-> m[NCircuitQubits - i]] \o <<" ">> \o
    [i \in 1..NCircuitClbits |-> "0"]

\* The counts dictionaries of up to MaxShots shots.
CountsOf(measured) ==
    [s \in {OutcomeString(m) : m \in DOMAIN measured} |->
        LET m == CHOOSE x \in DOMAIN measured : OutcomeString(x) = s
        IN measured[m]]

ShotTallies ==
    {t \in UNION {[ms -> 1..MaxShots] :
                      ms \in {x \in SUBSET Measurements :
                                  Cardinality(x) \in 1..MaxShots}} :
        SumValues(t, DOMAIN t) <= MaxShots}

\* probs = {state: count/total_shots for state, count in counts.items()}
Probs(counts) ==
    [state \in DOMAIN counts |-> Frac(counts[state], TotalCounts(counts))]

RECURSIVE SumProbs(_, _)
SumProbs(probs, states) ==
    IF states = {} THEN FZero
    ELSE LET st == CHOOSE x \in states : TRUE
         IN FAdd(probs[st], SumProbs(probs, states \ {st}))

\* len(state) > qubit and state[-(qubit+1)] == '1'
ReadsOne(state, qubit) ==
    Len(state) > qubit /\ state[Len(state) - qubit] = "1"

\* error_rate of one qubit: the inner loop over probs.items()
ErrorRate(probs, qubit) ==
    SumProbs(probs, {state \in DOMAIN probs : ReadsOne(state, qubit)})

NeighbourQubits == {0, 2}
QubitKey(q) == IF q = 0 THEN "qubit_0" ELSE "qubit_2"

QubitErrors(probs) ==
    [k \in {QubitKey(q) : q \in NeighbourQubits} |->
        ErrorRate(probs, CHOOSE q \in NeighbourQubits : QubitKey(q) = k)]

VARIABLES
    simIdx,         \* number of circuits run so far
    simMeasured,    \* what the shots of the latest circuit measured
    simCounts,      \* results[circuit_name]['counts'] of the latest circuit
    simErrors,      \* results[circuit_name]['qubit_errors']
    simTotal        \* results[circuit_name]['total_shots']

varsSim == <<simIdx, simMeasured, simCounts, simErrors, simTotal>>

InitSim ==
    /\ simIdx = 0
    /\ simMeasured = <<>>
    /\ simCounts = <<>>
    /\ simErrors = <<>>
    /\ simTotal = 0

IdleSim ==
    /\ simIdx = Len(CircuitNames) + 1
    /\ simMeasured = <<>>
    /\ simCounts = <<>>
    /\ simErrors = <<>>
    /\ simTotal = 0

\* One pass of the loop over circuits.items(): run, count, compute.
RunCircuit ==
    /\ simIdx < Len(CircuitNames)
    /\ \E t \in ShotTallies :
          LET counts == CountsOf(t)
          IN /\ simMeasured' = t
             /\ simCounts' = counts
             /\ simTotal' = TotalCounts(counts)
             /\ simErrors' = QubitErrors(Probs(counts))
    /\ simIdx' = simIdx + 1

\* -------------------------------------------------- cross-talk analysis
\* qiskit-experiment/test_crosstalk_direct.py analyze_crosstalk_results.
\* Error rates are counted in units of 1/MaxRate.

MaxRate == 1

\* operations = ['x', 'y', 'z', 'h', 's']
Operations == <<"x", "y", "z", "h", "s">>

QubitKeys == {"qubit_0", "qubit_2"}

\* The qubit_errors dictionaries simulate_crosstalk_effects can report.
QubitErrorDicts == [QubitKeys -> 0..MaxRate]

EmptyDict == <<>>

\* d.get(k, 0)
GetRate(d, k) == IF k \in DOMAIN d THEN d[k] ELSE 0

\* The cross-talk rate without the clipping at 0.
RateDifference(rate, ref) == rate - ref

\* max(0, op_rate - ref_rate)
CrosstalkRate(rate, ref) ==
    IF rate - ref > 0 THEN rate - ref ELSE 0

\* crosstalk_rates / enhanced_crosstalk of one result
CrosstalkRates(errors, refErrors) ==
    [qubit \in QubitKeys |->
        CrosstalkRate(GetRate(errors, qubit), GetRate(refErrors, qubit))]

VARIABLES
    anaPc,          \* "start", "loop", "done"
    anaHasRef,      \* 'reference' in results
    anaRefIn,       \* results['reference']['qubit_errors']
    anaRefErrors,   \* analysis['reference_errors']
    anaIdx,         \* number of operations the loop has passed
    anaPresent,     \* per passed operation: single_key in results
    anaHasMulti,    \* multiple_key in results, latest operation
    anaSingleIn,    \* results[single_key]['qubit_errors'], latest operation
    anaMultiIn,     \* results[multiple_key]['qubit_errors']
    anaRates,       \* analysis['crosstalk_rates'][op]
    anaRatesMulti,  \* analysis['crosstalk_rates'][f'{op}_10x']
    anaOpTypes      \* analysis['operation_types']

varsAna == <<anaPc, anaHasRef, anaRefIn, anaRefErrors, anaIdx, anaPresent,
             anaHasMulti, anaSingleIn, anaMultiIn, anaRates, anaRatesMulti,
             anaOpTypes>>

InitAna ==
    /\ anaPc = "start"
    /\ anaHasRef \in BOOLEAN
    /\ anaRefIn \in IF anaHasRef THEN QubitErrorDicts ELSE {EmptyDict}
    /\ anaRefErrors = EmptyDict
    /\ anaIdx = 0
    /\ anaPresent = <<>>
    /\ anaHasMulti = FALSE
    /\ anaSingleIn = EmptyDict
    /\ anaMultiIn = EmptyDict
    /\ anaRates = EmptyDict
    /\ anaRatesMulti = EmptyDict
    /\ anaOpTypes = <<>>

IdleAna ==
    /\ anaPc = "idle"
    /\ anaHasRef = FALSE
    /\ anaRefIn = EmptyDict
    /\ anaRefErrors = EmptyDict
    /\ anaIdx = 0
    /\ anaPresent = <<>>
    /\ anaHasMulti = FALSE
    /\ anaSingleIn = EmptyDict
    /\ anaMultiIn = EmptyDict
    /\ anaRates = EmptyDict
    /\ anaRatesMulti = EmptyDict
    /\ anaOpTypes = <<>>

\* if 'reference' in results: analysis['reference_errors'] = ref_errors
ReferenceErrors ==
    /\ anaPc = "start"
    /\ anaRefErrors' = IF anaHasRef THEN anaRefIn ELSE EmptyDict
    /\ anaPc' = "loop"
    /\ UNCHANGED <<anaHasRef, anaRefIn, anaIdx, anaPresent, anaHasMulti,
                   anaSingleIn, anaMultiIn, anaRates, anaRatesMulti,
                   anaOpTypes>>

\* One pass of the loop over operations.
AnalyzeOperation ==
    /\ anaPc = "loop"
    /\ anaIdx < Len(Operations)
    /\ \E hasSingle \in BOOLEAN, hasMulti \in BOOLEAN :
       \E single \in IF hasSingle THEN QubitErrorDicts ELSE {EmptyDict},
          multi \in IF hasMulti THEN QubitErrorDicts ELSE {EmptyDict} :
          /\ anaPresent' = Append(anaPresent, hasSingle)
          /\ anaHasMulti' = hasMulti
          /\ anaSingleIn' = single
          /\ anaMultiIn' = multi
          /\ anaRates' = IF hasSingle
                         THEN CrosstalkRates(single, anaRefErrors)
                         ELSE EmptyDict
          /\ anaOpTypes' = IF hasSingle
                           THEN Append(anaOpTypes, Operations[anaIdx + 1])
                           ELSE anaOpTypes
          /\ anaRatesMulti' = IF hasMulti
                              THEN CrosstalkRates(multi, anaRefErrors)
                              ELSE EmptyDict
    /\ anaIdx' = anaIdx + 1
    /\ UNCHANGED <<anaPc, anaHasRef, anaRefIn, anaRefErrors>>

\* return analysis
AnalyzeReturn ==
    /\ anaPc = "loop"
    /\ anaIdx = Len(Operations)
    /\ anaPc' = "done"
    /\ UNCHANGED <<anaHasRef, anaRefIn, anaRefErrors, anaIdx, anaPresent,
                   anaHasMulti, anaSingleIn, anaMultiIn, anaRates,
                   anaRatesMulti, anaOpTypes>>

\* ------------------------------------------------------ T1 decay data
\* qiskit-experiment/test_t1_direct.py simulate_t1_decay, for t1_time > 0
\* and a positive number of shots (the script passes 50e-6 and 2000).
\* Probabilities are counted in halves: Fin(2) is 1.0.

MaxDelays == 3
MaxT1Shots == 2

ProbOne == 2

\* prob_1 after np.exp and the added normal noise: any float.
NoisyProbs == {Fin(k) : k \in -1..ProbOne + 1} \cup {PosInf, NaN}

\* The probability handed on without clamping.
Unclamped(p) == p

\* max(0, min(1, prob_1)): each builtin keeps its first argument unless the
\* other one compares smaller (min) or larger (max).
Clamp(p) ==
    LET m == IF IsFin(p) /\ p[2] < ProbOne THEN p ELSE Fin(ProbOne)
    IN IF m[2] > 0 THEN m ELSE Fin(0)

\* np.random.binomial(n, p): the counts it can return; it raises ValueError
\* for p outside [0, 1] or nan.
BinomialRaises(n, p) == ~IsFin(p) \/ p[2] < 0 \/ p[2] > ProbOne

Binomial(n, p) ==
    IF p[2] = 0 THEN {0}
    ELSE IF p[2] = ProbOne THEN {n}
    ELSE 0..n

VARIABLES
    t1pc,           \* "loop", "returned", "raised"
    t1Delays,       \* delay_times
    t1Shots,        \* shots
    t1Results       \* results; each entry also records its delay's position

varsT1 == <<t1pc, t1Delays, t1Shots, t1Results>>

InitT1 ==
    /\ t1pc = "loop"
    /\ t1Delays \in SeqsUpTo(DelayValues, MaxDelays)
    /\ t1Shots \in 1..MaxT1Shots
    /\ t1Results = <<>>

IdleT1 ==
    /\ t1pc = "idle"
    /\ t1Delays = <<>>
    /\ t1Shots = 1
    /\ t1Results = <<>>

\* One pass of the loop over delay_times.
SimulateDelay ==
    /\ t1pc = "loop"
    /\ Len(t1Results) < Len(t1Delays)
    /\ \E noisy \in NoisyProbs :
          LET prob_1 == Clamp(noisy)
          IN IF BinomialRaises(t1Shots, prob_1)
             THEN /\ t1pc' = "raised"
                  /\ UNCHANGED t1Results
             ELSE \E count_1 \in Binomial(t1Shots, prob_1) :
                     /\ t1Results' = Append(t1Results,
                           [at |-> Len(t1Results) + 1,
                            count_0 |-> t1Shots - count_1,
                            count_1 |-> count_1,
                            prob_1 |-> Frac(count_1, t1Shots)])
                     /\ UNCHANGED t1pc
    /\ UNCHANGED <<t1Delays, t1Shots>>

\* return results
ReturnResults ==
    /\ t1pc = "loop"
    /\ Len(t1Results) = Len(t1Delays)
    /\ t1pc' = "returned"
    /\ UNCHANGED <<t1Delays, t1Shots, t1Results>>

\* ----------------------------------------------------- max-cut Paulis
\* qiskit-related/run_qaoa.py create_graph and build_max_cut_paulis.
\* rx.PyGraph is a multigraph: add_edges_from keeps parallel edges.

MaxNodes == 3
MaxEdges == 2

EdgeWeights == {1, 2}

\* The edge lists create_graph accepts for n nodes: (node, node, weight).
EdgeLists(n) ==
    SeqsUpTo((0..n - 1) \X (0..n - 1) \X EdgeWeights, MaxEdges)

\* graph.get_edge_data(a, b): the data of an edge joining a and b; with
\* parallel edges, of one of them.
GetEdgeData(edges, a, b) ==
    {edges[k][3] : k \in {x \in 1..Len(edges) :
                            {edges[x][1], edges[x][2]} = {a, b}}}

\* "".join(paulis)[::-1] with paulis[i] = paulis[j] = "Z", as the sequence
\* of its characters.
PauliString(n, i, j) ==
    [k \in 1..n |-> IF n - k = i \/ n - k = j THEN "Z" ELSE "I"]

VARIABLES
    qpc,            \* "loop", "returned"
    qNodes,         \* len(graph)
    qEdges,         \* graph.edge_list() with each edge's data
    qPauliList      \* pauli_list

varsPaulis == <<qpc, qNodes, qEdges, qPauliList>>

InitPaulis ==
    /\ qpc = "loop"
    /\ qNodes \in 1..MaxNodes
    /\ qEdges \in EdgeLists(qNodes)
    /\ qPauliList = <<>>

IdlePaulis ==
    /\ qpc = "idle"
    /\ qNodes = 1
    /\ qEdges = <<>>
    /\ qPauliList = <<>>

\* One pass of the loop over graph.edge_list().
AppendPauli ==
    /\ qpc = "loop"
    /\ Len(qPauliList) < Len(qEdges)
    /\ LET edge == qEdges[Len(qPauliList) + 1]
       IN \E weight \in GetEdgeData(qEdges, edge[1], edge[2]) :
             qPauliList' = Append(qPauliList,
                 <<PauliString(qNodes, edge[1], edge[2]), weight>>)
    /\ UNCHANGED <<qpc, qNodes, qEdges>>

\* return pauli_list
ReturnPauliList ==
    /\ qpc = "loop"
    /\ Len(qPauliList) = Len(qEdges)
    /\ qpc' = "returned"
    /\ UNCHANGED <<qNodes, qEdges, qPauliList>>

\* ------------------------------------------------------------- Student
\* cs50.py class Student and main.

MaxStudents == 2

Houses == {"Gryffindor", "Hufflepuff", "Ravenclaw", "Slytherin"}

\* What a caller or the user can give as a name and as a house.
NameInputs == {"", "Harry", "Draco"}
HouseInputs == Houses \cup {"", "Number four"}

NoException == "none"
MissingName == "ValueError: Missing name"
InvalidHouse == "ValueError: Invalid house"

\* A check that lets every house through.
AnyHouse(house) == TRUE

\* not (house not in ["Gryffindor", "Hufflepuff", "Ravenclaw", "Slytherin"])
ValidHouse(house) == house \in Houses

\* A setter that stores the house before it validates.
SetterAssignsFirst(student, house) ==
    <<IF ValidHouse(house) THEN NoException ELSE InvalidHouse,
      [student EXCEPT !.house = house]>>

\* The house setter: <<exception, the student afterwards>>.
HouseSetter(student, house) ==
    IF ~ValidHouse(house)
    THEN <<InvalidHouse, student>>
    ELSE <<NoException, [student EXCEPT !.house = house]>>

NoStudent == [name |-> "", house |-> ""]

\* Student(name, house): <<exception, the object>>; the object of a failed
\* construction is never handed to the caller.
NewStudent(name, house) ==
    IF name = ""
    THEN <<MissingName, NoStudent>>
    ELSE LET set == HouseSetter([name |-> name, house |-> ""], house)
         IN IF set[1] # NoException THEN <<set[1], NoStudent>> ELSE set

\* The house main() assigns to the student it got.
ValidMainHouse == "Slytherin"

MainHouse == "Number four"

VARIABLES
    students,       \* the Student objects that exist
    stuOp,          \* the latest operation: <<kind, object, name, house>>
    stuExc,         \* the exception it raised
    mpc,            \* main(): "input", "student", "raised", "printed"
    mStudent,       \* main()'s student
    mExc            \* the exception that ended main()

varsStudent == <<students, stuOp, stuExc, mpc, mStudent, mExc>>

NoOp == <<"none", 0, "", "">>

InitStudent ==
    /\ students = <<>>
    /\ stuOp = NoOp
    /\ stuExc = NoException
    /\ mpc = "input"
    /\ mStudent = NoStudent
    /\ mExc = NoException

IdleStudent ==
    /\ students = <<>>
    /\ stuOp = NoOp
    /\ stuExc = NoException
    /\ mpc = "idle"
    /\ mStudent = NoStudent
    /\ mExc = NoException

\* Student(name, house) called by some client
Construct ==
    /\ Len(students) < MaxStudents
    /\ \E name \in NameInputs, house \in HouseInputs :
          LET new == NewStudent(name, house)
          IN /\ stuOp' = <<"construct", 0, name, house>>
             /\ stuExc' = new[1]
             /\ students' = IF new[1] = NoException
                            THEN Append(students, new[2])
                            ELSE students
    /\ UNCHANGED <<mpc, mStudent, mExc>>

\* student.house = house on an existing object
AssignHouse ==
    /\ \E i \in 1..Len(students), house \in HouseInputs :
          LET set == HouseSetter(students[i], house)
          IN /\ stuOp' = <<"assign", i, "", house>>
             /\ stuExc' = set[1]
             /\ students' = [students EXCEPT ![i] = set[2]]
    /\ UNCHANGED <<mpc, mStudent, mExc>>

\* student = get_student()
GetStudent ==
    /\ mpc = "input"
    /\ \E name \in NameInputs, house \in HouseInputs :
          LET new == NewStudent(name, house)
          IN /\ mExc' = new[1]
             /\ mStudent' = new[2]
             /\ mpc' = IF new[1] = NoException THEN "student" ELSE "raised"
    /\ UNCHANGED <<students, stuOp, stuExc>>

\* student.house = "Number four"; print(student)
AssignAndPrint ==
    /\ mpc = "student"
    /\ LET set == HouseSetter(mStudent, MainHouse)
       IN /\ mExc' = set[1]
          /\ mStudent' = set[2]
          /\ mpc' = IF set[1] = NoException THEN "printed" ELSE "raised"
    /\ UNCHANGED <<students, stuOp, stuExc>>

\* --------------------------------------------------------- XEB ranking
\* AzureQuantum/backend.py, the loop over provider.backends() and the
\* summary of the main script. Scores are counted in units of 1/MaxXebScore.

MaxBackends == 3
MaxXebScore == 2

\* backend.name() of the provider's backends
BackendNames == {"ionq.simulator", "quantinuum.sim", "rigetti.sim.qvm"}

\* provider.backends(): distinct backends in any order
BackendLists ==
    {l \in SeqsUpTo(BackendNames, MaxBackends) :
        \A i, j \in 1..Len(l) : i # j => l[i] # l[j]}

\* xeb_score of run_xeb_on_backend: None or a score
RunScores == {None} \cup {Fin(k) : k \in 0..MaxXebScore}

\* if xeb_score:
ScoreIsTruthy(score) == ~IsNone(score) /\ score[2] # 0

\* if xeb_score is not None:
ScoreIsNotNone(score) == ~IsNone(score)

\* sorted(..., key=lambda x: -x[1]) is stable: an item goes behind every
\* item already placed whose score is at least its own.
RECURSIVE InsertByScore(_, _)
InsertByScore(item, sorted) ==
    IF sorted = <<>> THEN <<item>>
    ELSE IF Head(sorted)[2][2] >= item[2][2]
         THEN <<Head(sorted)>> \o InsertByScore(item, Tail(sorted))
         ELSE <<item>> \o sorted

RECURSIVE SortedByScore(_)
SortedByScore(items) ==
    IF items = <<>> THEN <<>>
    ELSE InsertByScore(items[Len(items)],
                       SortedByScore(SubSeq(items, 1, Len(items) - 1)))

VARIABLES
    rpc,            \* "loop", "summary", "done"
    rBackends,      \* provider.backends()
    rScores,        \* what run_xeb_on_backend returned, per backend passed
    xebResults,     \* xeb_results.items(), in insertion order
    rNoSuccess,     \* 'No successful XEB measurements obtained.' was printed
    rRanking,       \* the ranking lines printed
    rBest,          \* the best performing backend printed
    rWorst          \* the worst performing backend printed

varsRank == <<rpc, rBackends, rScores, xebResults, rNoSuccess, rRanking,
              rBest, rWorst>>

NoItem == <<"", None>>

InitRank ==
    /\ rpc = "loop"
    /\ rBackends \in BackendLists
    /\ rScores = <<>>
    /\ xebResults = <<>>
    /\ rNoSuccess = FALSE
    /\ rRanking = <<>>
    /\ rBest = NoItem
    /\ rWorst = NoItem

IdleRank ==
    /\ rpc = "idle"
    /\ rBackends = <<>>
    /\ rScores = <<>>
    /\ xebResults = <<>>
    /\ rNoSuccess = FALSE
    /\ rRanking = <<>>
    /\ rBest = NoItem
    /\ rWorst = NoItem

\* One pass of the loop over provider.backends().
RunOnBackend ==
    /\ rpc = "loop"
    /\ Len(rScores) < Len(rBackends)
    /\ \E xeb_score \in RunScores :
          /\ rScores' = Append(rScores, xeb_score)
          /\ xebResults' =
                IF ScoreIsNotNone(xeb_score)
                THEN Append(xebResults,
                            <<rBackends[Len(rScores) + 1], xeb_score>>)
                ELSE xebResults
    /\ UNCHANGED <<rpc, rBackends, rNoSuccess, rRanking, rBest, rWorst>>

\* The summary: if xeb_results: ... else: print("No successful ...")
Summary ==
    /\ rpc = "loop"
    /\ Len(rScores) = Len(rBackends)
    /\ IF xebResults # <<>>
       THEN LET sorted_results == SortedByScore(xebResults)
            IN /\ rRanking' = sorted_results
               /\ rBest' = sorted_results[1]
               /\ rWorst' = sorted_results[Len(sorted_results)]
               /\ UNCHANGED rNoSuccess
       ELSE /\ rNoSuccess' = TRUE
            /\ UNCHANGED <<rRanking, rBest, rWorst>>
    /\ rpc' = "done"
    /\ UNCHANGED <<rBackends, rScores, xebResults>>

\* ------------------------------------------- manual cross-talk simulation
\* qiskit-experiment/test_crosstalk_simple.py simulate_crosstalk_manually,
\* for shots > 0 and gate counts >= 0.

MaxManualShots == 2
MaxGates == 2
MaxScenarios == 2

\* crosstalk_strength values: none, the script's order of magnitude, certain
CrosstalkStrengths == {Frac(0, 1), Frac(1, 100), Frac(1, 1)}

\* base_error = 0.001
BaseError == Frac(1, 1000)

\* x - y for fractions with x >= y
FSub(x, y) == Frac(x[2] * y[3] - y[2] * x[3], x[3] * y[3])

FLess(x, y) == x[2] * y[3] < y[2] * x[3]

\* x ** n
RECURSIVE FPow(_, _)
FPow(x, n) == IF n = 0 THEN Frac(1, 1) ELSE FMul(x, FPow(x, n - 1))

\* neighbor_error_prob = 1 - (1 - crosstalk_strength) ** num_gates
NeighborErrorProb(strength, num_gates) ==
    FSub(Frac(1, 1), FPow(FSub(Frac(1, 1), strength), num_gates))

\* np.random.random() < threshold, np.random.random() being in [0, 1)
FlipOutcomes(threshold) ==
    IF ~FLess(threshold, Frac(1, 1)) THEN {1}
    ELSE IF FLess(Frac(0, 1), threshold) THEN {0, 1}
    ELSE {0}

\* qubit_states after one shot: <<q0, q1, q2>>, q1 staying 0
ShotStates(prob) ==
    {<<a, 0, b>> : a \in FlipOutcomes(FAdd(prob, BaseError)),
                   b \in FlipOutcomes(FAdd(prob, BaseError))}

Digit(b) == IF b = 1 THEN "1" ELSE "0"

\* The outcome string written in q0 q1 q2 order.
OutcomeForward(qubit_states) ==
    <<Digit(qubit_states[1]), Digit(qubit_states[2]), Digit(qubit_states[3])>>

\* f"{qubit_states[2]}{qubit_states[1]}{qubit_states[0]}", by characters
Outcome(qubit_states) ==
    <<Digit(qubit_states[3]), Digit(qubit_states[2]), Digit(qubit_states[1])>>

\* counts[outcome] = counts.get(outcome, 0) + 1 over the outcomes
ManualCounts(outcomes) ==
    [o \in {outcomes[i] : i \in 1..Len(outcomes)} |->
        Cardinality({i \in 1..Len(outcomes) : outcomes[i] = o})]

\* error_count / total_shots with outcome[2 - qubit_idx] == '1'
ManualErrorRate(outcomes, qubit_idx) ==
    Frac(Cardinality({i \in 1..Len(outcomes) :
                         outcomes[i][2 - qubit_idx + 1] = "1"}),
         Len(outcomes))

VARIABLES
    msStrength,     \* crosstalk_strength
    msShots,        \* shots
    msDone,         \* scenarios simulated so far
    msGates,        \* num_gates of the latest scenario
    msStates,       \* qubit_states of each of its shots
    msOutcomes,     \* measurement_outcomes
    msResult        \* results[scenario_name]

varsManual == <<msStrength, msShots, msDone, msGates, msStates, msOutcomes,
                msResult>>

NoResult ==
    [counts |-> <<>>, qubit_0 |-> Frac(0, 1), qubit_2 |-> Frac(0, 1),
     total_shots |-> 0, expected_crosstalk |-> Frac(0, 1), num_gates |-> 0]

InitManual ==
    /\ msStrength \in CrosstalkStrengths
    /\ msShots \in 1..MaxManualShots
    /\ msDone = 0
    /\ msGates = 0
    /\ msStates = <<>>
    /\ msOutcomes = <<>>
    /\ msResult = NoResult

IdleManual ==
    /\ msStrength = Frac(0, 1)
    /\ msShots = 1
    /\ msDone = MaxScenarios + 1
    /\ msGates = 0
    /\ msStates = <<>>
    /\ msOutcomes = <<>>
    /\ msResult = NoResult

\* One pass of the loop over gate_operations.items().
SimulateScenario ==
    /\ msDone < MaxScenarios
    /\ \E num_gates \in 0..MaxGates :
          LET prob == NeighborErrorProb(msStrength, num_gates)
          IN \E states \in [1..msShots -> ShotStates(prob)] :
                LET outcomes == [i \in 1..msShots |-> Outcome(states[i])]
                IN /\ msGates' = num_gates
                   /\ msStates' = states
                   /\ msOutcomes' = outcomes
                   /\ msResult' =
                         [counts |-> ManualCounts(outcomes),
                          qubit_0 |-> ManualErrorRate(outcomes, 0),
                          qubit_2 |-> ManualErrorRate(outcomes, 2),
                          total_shots |-> Len(outcomes),
                          expected_crosstalk |-> prob,
                          num_gates |-> num_gates]
    /\ msDone' = msDone + 1
    /\ UNCHANGED <<msStrength, msShots>>

\* ------------------------------------------- manual cross-talk analysis
\* qiskit-experiment/test_crosstalk_simple.py analyze_crosstalk_measurements
\* over results of simulate_crosstalk_manually. Error rates are counted in
\* units of 1/MaxErrorUnits.

MaxErrorUnits == 1
MaxResults == 3

\* Scenario names of create_gate_operation_scenarios
ScenarioNames == {"reference", "single_x", "multiple_x_5"}

\* results: (scenario, qubit_0 error, qubit_2 error) in insertion order,
\* the scenario names being the keys of a dictionary
ResultLists ==
    {l \in SeqsUpTo(ScenarioNames \X (0..MaxErrorUnits) \X (0..MaxErrorUnits),
                    MaxResults) :
        \A i, j \in 1..Len(l) : i # j => l[i][1] # l[j][1]}

\* results.get('reference', {}).get('qubit_errors', {}).get(key, 0);
\* pos is 2 for qubit_0 and 3 for qubit_2
RefError(results, pos) ==
    IF \E i \in 1..Len(results) : results[i][1] = "reference"
    THEN results[CHOOSE i \in 1..Len(results) :
                     results[i][1] = "reference"][pos]
    ELSE 0

\* max(0, a)
Max0(a) == IF a > 0 THEN a ELSE 0

\* The statistics taken over every scenario.
CountsEveryScenario(scenario) == TRUE

\* if scenario != 'reference'
CountsForStatistics(scenario) == scenario # "reference"

\* all_crosstalk_rates over the crosstalk_rates dictionary
RECURSIVE AllCrosstalkRates(_)
AllCrosstalkRates(rates) ==
    IF rates = <<>> THEN <<>>
    ELSE LET r == Head(rates)
         IN (IF CountsForStatistics(r.scenario)
             THEN <<r.qubit_0, r.qubit_2>> ELSE <<>>)
            \o AllCrosstalkRates(Tail(rates))

RECURSIVE SumSeq(_)
SumSeq(q) == IF q = <<>> THEN 0 ELSE Head(q) + SumSeq(Tail(q))

SeqMin(q) == CHOOSE x \in {q[i] : i \in 1..Len(q)} :
                 \A i \in 1..Len(q) : x <= q[i]
SeqMax(q) == CHOOSE x \in {q[i] : i \in 1..Len(q)} :
                 \A i \in 1..Len(q) : x >= q[i]

\* np.mean, np.min, np.max of the list; np.std is kept as its square,
\* mean(x^2) - mean(x)^2
Statistics(q) ==
    [count |-> Len(q),
     mean_crosstalk |-> Frac(SumSeq(q), Len(q)),
     var_crosstalk |->
         Frac(Len(q) * SumSeq([i \in 1..Len(q) |-> q[i] * q[i]])
                  - SumSeq(q) * SumSeq(q),
              Len(q) * Len(q)),
     min_crosstalk |-> SeqMin(q),
     max_crosstalk |-> SeqMax(q)]

EmptyStatistics ==
    [count |-> 0, mean_crosstalk |-> Frac(0, 1), var_crosstalk |-> Frac(0, 1),
     min_crosstalk |-> 0, max_crosstalk |-> 0]

VARIABLES
    mapc,           \* "scenarios", "statistics", "done"
    maResults,      \* results
    maRates,        \* analysis['crosstalk_rates'], in insertion order
    maAll,          \* all_crosstalk_rates
    maStatistics    \* analysis['statistics']; count 0 is the empty dict

varsManualAna == <<mapc, maResults, maRates, maAll, maStatistics>>

InitManualAna ==
    /\ mapc = "scenarios"
    /\ maResults \in ResultLists
    /\ maRates = <<>>
    /\ maAll = <<>>
    /\ maStatistics = EmptyStatistics

IdleManualAna ==
    /\ mapc = "idle"
    /\ maResults = <<>>
    /\ maRates = <<>>
    /\ maAll = <<>>
    /\ maStatistics = EmptyStatistics

\* One pass of the loop over results.items().
ProcessScenario ==
    /\ mapc = "scenarios"
    /\ Len(maRates) < Len(maResults)
    /\ LET data == maResults[Len(maRates) + 1]
           crosstalk_q0 == Max0(data[2] - RefError(maResults, 2))
           crosstalk_q2 == Max0(data[3] - RefError(maResults, 3))
       IN maRates' = Append(maRates,
              [scenario |-> data[1],
               qubit_0 |-> crosstalk_q0,
               qubit_2 |-> crosstalk_q2,
               average |-> Frac(crosstalk_q0 + crosstalk_q2, 2)])
    /\ UNCHANGED <<mapc, maResults, maAll, maStatistics>>

\* The overall statistics and the return.
OverallStatistics ==
    /\ mapc = "scenarios"
    /\ Len(maRates) = Len(maResults)
    /\ LET all_crosstalk_rates == AllCrosstalkRates(maRates)
       IN /\ maAll' = all_crosstalk_rates
          /\ maStatistics' = IF all_crosstalk_rates # <<>>
                             THEN Statistics(all_crosstalk_rates)
                             ELSE EmptyStatistics
    /\ mapc' = "done"
    /\ UNCHANGED <<maResults, maRates>>

\* -------------------------------------------------- T1 result report
\* qiskit-experiment/test_t1_working.py run_qiskit_experiments_t1, the
\* report over the analysis results. T1 values are in microseconds.

MaxRows == 2

\* The 'reasonable' range 10e-6 .. 200e-6 s
ReasonableLow == 10
ReasonableHigh == 200

\* result['name'] of the rows of the analysis results
ResultNames == {"T1", "@Parameters_T1Analysis"}

\* result['value'] of a row: a float
MeasuredValues ==
    {Fin(-1), Fin(0), Fin(ReasonableLow - 1), Fin(ReasonableLow), Fin(50),
     Fin(ReasonableHigh), Fin(ReasonableHigh + 1), PosInf, NaN}

\* The test with its lower limit left out.
BelowHighOnly(t) == IsFin(t) /\ t[2] <= ReasonableHigh

\* 10e-6 <= t1_measured <= 200e-6
InReasonableRange(t) ==
    IsFin(t) /\ ReasonableLow <= t[2] /\ t[2] <= ReasonableHigh

\* The lines printed for one row named 'T1' (lines 101-116).
ReportLines(t1_measured) ==
    {"Measured T1", "Expected T1", "Fit quality"}
        \cup (IF Gt0(t1_measured) THEN {"Relative error"}
              ELSE {"Warning: Negative T1 value indicates fitting issues"})
        \cup (IF InReasonableRange(t1_measured)
              THEN {"T1 value is in reasonable range"}
              ELSE {"T1 value may be unrealistic"})

VARIABLES
    trpc,           \* "results", "plotting"
    trRows,         \* results: rows <<name, value>>
    trDone,         \* rows passed by the loop
    trPrinted       \* the lines printed for the latest row

varsReport == <<trpc, trRows, trDone, trPrinted>>

InitReport ==
    /\ trpc = "results"
    /\ trRows \in SeqsUpTo(ResultNames \X MeasuredValues, MaxRows)
    /\ trDone = 0
    /\ trPrinted = {}

IdleReport ==
    /\ trpc = "idle"
    /\ trRows = <<>>
    /\ trDone = 0
    /\ trPrinted = {}

\* One pass of the loop over results.iterrows().
ReportRow ==
    /\ trpc = "results"
    /\ trDone < Len(trRows)
    /\ LET result == trRows[trDone + 1]
       IN trPrinted' = IF result[1] = "T1" THEN ReportLines(result[2]) ELSE {}
    /\ trDone' = trDone + 1
    /\ UNCHANGED <<trpc, trRows>>

\* The loop is over, or len(results) == 0: "No analysis results found".
ReportDone ==
    /\ trpc = "results"
    /\ trDone = Len(trRows)
    /\ trPrinted' = IF Len(trRows) > 0 THEN trPrinted
                    ELSE {"No analysis results found"}
    /\ trpc' = "plotting"
    /\ UNCHANGED <<trRows, trDone>>

\* ------------------------------------------------------- T1 plotting
\* The plotting step of qiskit-experiment/test_t1.py (main),
\* test_t1_simple.py (run_t1_experiment) and test_t1_working.py
\* (run_qiskit_experiments_t1).

MaxData == 2

PlotScripts == {"test_t1", "test_t1_simple", "test_t1_working"}

\* A datum of exp_data.data(): with a counts attribute, or a plain dict
DatumKinds == {"counts", "dict"}

\* Exceptions exp_data.figure, matplotlib and the data access raise
PlotExceptions == {"IndexError", "AttributeError", "ValueError", "TypeError"}

NoPlotException == "none"

\* A handler for missing figures only.
PlotCatchesIndexError(e) == e = "IndexError"

\* except Exception as e / except Exception as e2
PlotCatches(e) == e \in PlotExceptions

HasCounts(data) == {i \in 1..Len(data) : data[i] = "counts"}

\* What the manual plot's own code does with the data, before matplotlib
\* has its say: the exception it raises, "nodata" or "plot".
ManualPlotData(script, data) ==
    IF script = "test_t1"
    THEN IF HasCounts(data) = {} THEN "nodata"
         ELSE IF Cardinality(HasCounts(data)) # Len(data) THEN "ValueError"
         ELSE "plot"
    ELSE IF script = "test_t1_simple"
    THEN IF Cardinality(HasCounts(data)) # Len(data) THEN "AttributeError"
         ELSE "plot"
    ELSE "plot"

BuiltinFailedLine(script) ==
    IF script = "test_t1_simple" THEN "Plotting failed"
    ELSE "Built-in plotting failed"

VARIABLES
    plpc,           \* "builtin", "manual", "done", "raised"
    plScript,       \* which script runs
    plData,         \* exp_data.data()
    plBuiltinExc,   \* the exception of the built-in figure, or "none"
    plManualExc,    \* the exception of the manual plot, or "none"
    plManualTried,  \* the manual plot has been attempted
    plPrinted       \* the lines printed by the plotting step

varsPlot == <<plpc, plScript, plData, plBuiltinExc, plManualExc,
              plManualTried, plPrinted>>

InitPlot ==
    /\ plpc = "builtin"
    /\ plScript \in PlotScripts
    /\ plData \in SeqsUpTo(DatumKinds, MaxData)
    /\ plBuiltinExc = NoPlotException
    /\ plManualExc = NoPlotException
    /\ plManualTried = FALSE
    /\ plPrinted = {}

IdlePlot ==
    /\ plpc = "idle"
    /\ plScript = "test_t1"
    /\ plData = <<>>
    /\ plBuiltinExc = NoPlotException
    /\ plManualExc = NoPlotException
    /\ plManualTried = FALSE
    /\ plPrinted = {}

\* The outer try block and its except clause up to the inner try.
BuiltinFigure ==
    /\ plpc = "builtin"
    /\ \/ /\ plpc' = "done"
          /\ plPrinted' = plPrinted \cup {"Built-in figure used"}
          /\ UNCHANGED plBuiltinExc
       \/ \E e \in PlotExceptions :
             /\ plBuiltinExc' = e
             /\ IF PlotCatches(e)
                THEN /\ plpc' = "manual"
                     /\ plPrinted' = plPrinted \cup {BuiltinFailedLine(plScript)}
                ELSE /\ plpc' = "raised"
                     /\ UNCHANGED plPrinted
    /\ UNCHANGED <<plScript, plData, plManualExc, plManualTried>>

\* The inner try block and its except clause.
ManualPlot ==
    /\ plpc = "manual"
    /\ plManualTried' = TRUE
    /\ LET own == ManualPlotData(plScript, plData)
       IN \E outcome \in IF own = "plot"
                         THEN {"plot"} \cup PlotExceptions
                         ELSE {own} :
             IF outcome = "plot"
             THEN /\ plPrinted' = plPrinted \cup {"Manual plot saved"}
                  /\ plpc' = "done"
                  /\ UNCHANGED plManualExc
             ELSE IF outcome = "nodata"
             THEN /\ plPrinted' =
                        plPrinted \cup {"No data available for plotting"}
                  /\ plpc' = "done"
                  /\ UNCHANGED plManualExc
             ELSE /\ plManualExc' = outcome
                  /\ IF PlotCatches(outcome)
                     THEN /\ plPrinted' =
                                plPrinted \cup {"Manual plotting also failed"}
                          /\ plpc' = "done"
                     ELSE /\ plpc' = "raised"
                          /\ UNCHANGED plPrinted
    /\ UNCHANGED <<plScript, plData, plBuiltinExc>>

\* ----------------------------------------------------------- QAOA run
\* qiskit-related/run_qaoa.py test_run_qaoa_circuit and the module
\* qiskit-related/cost_func.py it imports from.

MaxParams == 6
MaxIters == 2

\* The functions cost_func.py defines
CostFuncNames == {"cost_func_vqe", "cost_func_ssvqe"}

\* from cost_func import cost_func_estimator
ImportedName == "cost_func_estimator"

\* init_params: [initial_gamma, initial_beta] * qaoa_round
ParamValues == {"pi", "pi/2"}

\* Costs the estimator reports
CostValues == {0, 1}

\* The events of a run in which the optimizer calls back n times with the
\* given costs: session opened, per iteration the optimizer's own cost
\* evaluation and then the callback's, optimizer returned, session closed,
\* result printed, values plotted.
RECURSIVE IterationEvents(_)
IterationEvents(costs) ==
    IF costs = <<>> THEN <<>>
    ELSE <<"evaluate", "callback">> \o IterationEvents(Tail(costs))

RunEvents(costs) ==
    <<"open">> \o IterationEvents(costs)
        \o <<"minimize returned", "close", "print", "plot">>

VARIABLES
    qapc,           \* "call", "returned", "raised"
    qaParams,       \* init_params
    qaExc,          \* the exception that ended the call, or "none"
    qaVals,         \* objective_func_vals
    qaEvents        \* what happened, in order

varsQaoa == <<qapc, qaParams, qaExc, qaVals, qaEvents>>

InitQaoa ==
    /\ qapc = "call"
    /\ qaParams \in SeqsUpTo(ParamValues, MaxParams)
    /\ qaExc = "none"
    /\ qaVals = <<>>
    /\ qaEvents = <<>>

IdleQaoa ==
    /\ qapc = "idle"
    /\ qaParams = <<>>
    /\ qaExc = "none"
    /\ qaVals = <<>>
    /\ qaEvents = <<>>

\* test_run_qaoa_circuit(init_params, ...): the import on its first line,
\* then the session, the optimizer with its callback, print and plot.
RunQaoaCircuit ==
    /\ qapc = "call"
    /\ IF ImportedName \notin CostFuncNames
       THEN /\ qaExc' = "ImportError"
            /\ qapc' = "raised"
            /\ UNCHANGED <<qaVals, qaEvents>>
       ELSE \E costs \in SeqsUpTo(CostValues, MaxIters) :
               /\ qaVals' = costs
               /\ qaEvents' = RunEvents(costs)
               /\ qapc' = "returned"
               /\ UNCHANGED qaExc
    /\ UNCHANGED qaParams

\* ------------------------------------------------------ specifications

vars == <<varsFit, varsGuess, varsScore, varsXeb, varsBackend,
         varsCrosstalk, varsSim, varsAna, varsT1,
         varsPaulis, varsStudent, varsRank,
         varsManual, varsManualAna, varsReport,
         varsPlot, varsQaoa>>

IdleFit ==
    /\ caller = "client"
    /\ delays = <<>>
    /\ probabilities = <<>>
    /\ pc = "idle"
    /\ optCalls = 0
    /\ opt = NoFit
    /\ ret = NoneTriple
    /\ escaped = FALSE
    /\ out = <<>>
    /\ drawn = None
    /\ expRet = <<None, None>>

IdleGuess == guess = None /\ p0 = None /\ gpc = "idle"

\* The components outside G are not running.
IdleExcept(G) ==
    /\ IF "fit" \in G THEN TRUE ELSE IdleFit
    /\ IF "guess" \in G THEN TRUE ELSE IdleGuess
    /\ IF "score" \in G THEN TRUE ELSE IdleScore
    /\ IF "xeb" \in G THEN TRUE ELSE IdleXeb
    /\ IF "backend" \in G THEN TRUE ELSE IdleBackend
    /\ IF "crosstalk" \in G THEN TRUE ELSE IdleCrosstalk
    /\ IF "sim" \in G THEN TRUE ELSE IdleSim
    /\ IF "ana" \in G THEN TRUE ELSE IdleAna
    /\ IF "t1" \in G THEN TRUE ELSE IdleT1
    /\ IF "paulis" \in G THEN TRUE ELSE IdlePaulis
    /\ IF "student" \in G THEN TRUE ELSE IdleStudent
    /\ IF "rank" \in G THEN TRUE ELSE IdleRank
    /\ IF "manual" \in G THEN TRUE ELSE IdleManual
    /\ IF "manualana" \in G THEN TRUE ELSE IdleManualAna
    /\ IF "report" \in G THEN TRUE ELSE IdleReport
    /\ IF "plot" \in G THEN TRUE ELSE IdlePlot
    /\ IF "qaoa" \in G THEN TRUE ELSE IdleQaoa

FrameExcept(G) ==
    /\ IF "fit" \in G THEN TRUE ELSE UNCHANGED varsFit
    /\ IF "guess" \in G THEN TRUE ELSE UNCHANGED varsGuess
    /\ IF "score" \in G THEN TRUE ELSE UNCHANGED varsScore
    /\ IF "xeb" \in G THEN TRUE ELSE UNCHANGED varsXeb
    /\ IF "backend" \in G THEN TRUE ELSE UNCHANGED varsBackend
    /\ IF "crosstalk" \in G THEN TRUE ELSE UNCHANGED varsCrosstalk
    /\ IF "sim" \in G THEN TRUE ELSE UNCHANGED varsSim
    /\ IF "ana" \in G THEN TRUE ELSE UNCHANGED varsAna
    /\ IF "t1" \in G THEN TRUE ELSE UNCHANGED varsT1
    /\ IF "paulis" \in G THEN TRUE ELSE UNCHANGED varsPaulis
    /\ IF "student" \in G THEN TRUE ELSE UNCHANGED varsStudent
    /\ IF "rank" \in G THEN TRUE ELSE UNCHANGED varsRank
    /\ IF "manual" \in G THEN TRUE ELSE UNCHANGED varsManual
    /\ IF "manualana" \in G THEN TRUE ELSE UNCHANGED varsManualAna
    /\ IF "report" \in G THEN TRUE ELSE UNCHANGED varsReport
    /\ IF "plot" \in G THEN TRUE ELSE UNCHANGED varsPlot
    /\ IF "qaoa" \in G THEN TRUE ELSE UNCHANGED varsQaoa

\* fit_exponential_decay and run_simple_t1_experiment alone.
InitFitOnly == InitFit /\ IdleExcept({"fit"})

NextFitOnly ==
    \/ CurveFit /\ FrameExcept({"fit"})
    \/ ReturnFit /\ FrameExcept({"fit"})
    \/ Except /\ FrameExcept({"fit"})
    \/ ClientDone /\ FrameExcept({"fit"})
    \/ Report /\ FrameExcept({"fit"})
    \/ Plot /\ FrameExcept({"fit"})
    \/ ExperimentReturn /\ FrameExcept({"fit"})

SpecFit == InitFitOnly /\ [][NextFitOnly]_vars

\* The same call with the binding of its arguments and its initial guess.
InitGuessOnly == InitGuess /\ IdleExcept({"fit", "guess"})

NextGuessOnly ==
    \/ Bind /\ FrameExcept({"fit", "guess"})
    \/ CurveFitP0 /\ FrameExcept({"fit", "guess"})
    \/ AfterCurveFit /\ FrameExcept({"fit", "guess"})

SpecGuess == InitGuessOnly /\ [][NextGuessOnly]_vars

\* compute_xeb_score on arbitrary distributions.
InitScoreOnly == InitScore /\ IdleExcept({"score"})

NextScoreOnly ==
    \/ ScoreCall /\ FrameExcept({"score"})

SpecScore == InitScoreOnly /\ [][NextScoreOnly]_vars

\* One call of run_xeb_on_backend.
InitXebOnly == InitXeb /\ IdleExcept({"xeb"})

NextXebOnly ==
    \/ XebSubmit /\ FrameExcept({"xeb"})
    \/ XebResult /\ FrameExcept({"xeb"})
    \/ XebProbabilities /\ FrameExcept({"xeb"})
    \/ XebScoreReturn /\ FrameExcept({"xeb"})
    \/ XebExcept /\ FrameExcept({"xeb"})

SpecXeb == InitXebOnly /\ [][NextXebOnly]_vars

\* The choice of the backend in the T1 scripts.
InitBackendOnly == InitBackend /\ IdleExcept({"backend"})

NextBackendOnly ==
    \/ Acquire /\ FrameExcept({"backend"})
    \/ FallBack /\ FrameExcept({"backend"})
    \/ SetUpExperiment /\ FrameExcept({"backend"})
    \/ RunExperiment /\ FrameExcept({"backend"})

SpecBackend == InitBackendOnly /\ [][NextBackendOnly]_vars

\* create_crosstalk_backend and one gate applied on its backend.
InitCrosstalkOnly == InitCrosstalk /\ IdleExcept({"crosstalk"})

NextCrosstalkOnly ==
    \/ AddCrosstalkError /\ FrameExcept({"crosstalk"})
    \/ FinishBackend /\ FrameExcept({"crosstalk"})
    \/ ApplyGate /\ FrameExcept({"crosstalk"})

SpecCrosstalk == InitCrosstalkOnly /\ [][NextCrosstalkOnly]_vars

\* simulate_crosstalk_effects over the circuits of
\* create_crosstalk_measurement_circuits.
InitSimOnly == InitSim /\ IdleExcept({"sim"})

NextSimOnly ==
    \/ RunCircuit /\ FrameExcept({"sim"})

SpecSim == InitSimOnly /\ [][NextSimOnly]_vars

\* analyze_crosstalk_results over the results it can be given.
InitAnaOnly == InitAna /\ IdleExcept({"ana"})

NextAnaOnly ==
    \/ ReferenceErrors /\ FrameExcept({"ana"})
    \/ AnalyzeOperation /\ FrameExcept({"ana"})
    \/ AnalyzeReturn /\ FrameExcept({"ana"})

SpecAna == InitAnaOnly /\ [][NextAnaOnly]_vars

\* simulate_t1_decay over delay lists and shot numbers.
InitT1Only == InitT1 /\ IdleExcept({"t1"})

NextT1Only ==
    \/ SimulateDelay /\ FrameExcept({"t1"})
    \/ ReturnResults /\ FrameExcept({"t1"})

SpecT1 == InitT1Only /\ [][NextT1Only]_vars

\* build_max_cut_paulis over the graphs of create_graph.
InitPaulisOnly == InitPaulis /\ IdleExcept({"paulis"})

NextPaulisOnly ==
    \/ AppendPauli /\ FrameExcept({"paulis"})
    \/ ReturnPauliList /\ FrameExcept({"paulis"})

SpecPaulis == InitPaulisOnly /\ [][NextPaulisOnly]_vars

\* Student objects under construction and house assignment, and main().
InitStudentOnly == InitStudent /\ IdleExcept({"student"})

NextStudentOnly ==
    \/ Construct /\ FrameExcept({"student"})
    \/ AssignHouse /\ FrameExcept({"student"})
    \/ GetStudent /\ FrameExcept({"student"})
    \/ AssignAndPrint /\ FrameExcept({"student"})

SpecStudent == InitStudentOnly /\ [][NextStudentOnly]_vars

\* The XEB loop over the provider's backends and its summary.
InitRankOnly == InitRank /\ IdleExcept({"rank"})

NextRankOnly ==
    \/ RunOnBackend /\ FrameExcept({"rank"})
    \/ Summary /\ FrameExcept({"rank"})

SpecRank == InitRankOnly /\ [][NextRankOnly]_vars

\* simulate_crosstalk_manually over scenarios, strengths and shots.
InitManualOnly == InitManual /\ IdleExcept({"manual"})

NextManualOnly ==
    \/ SimulateScenario /\ FrameExcept({"manual"})

SpecManual == InitManualOnly /\ [][NextManualOnly]_vars

\* analyze_crosstalk_measurements over the results it can be given.
InitManualAnaOnly == InitManualAna /\ IdleExcept({"manualana"})

NextManualAnaOnly ==
    \/ ProcessScenario /\ FrameExcept({"manualana"})
    \/ OverallStatistics /\ FrameExcept({"manualana"})

SpecManualAna == InitManualAnaOnly /\ [][NextManualAnaOnly]_vars

\* The report of run_qiskit_experiments_t1 over its analysis results.
InitReportOnly == InitReport /\ IdleExcept({"report"})

NextReportOnly ==
    \/ ReportRow /\ FrameExcept({"report"})
    \/ ReportDone /\ FrameExcept({"report"})

SpecReport == InitReportOnly /\ [][NextReportOnly]_vars

\* The plotting step of the three T1 scripts.
InitPlotOnly == InitPlot /\ IdleExcept({"plot"})

NextPlotOnly ==
    \/ BuiltinFigure /\ FrameExcept({"plot"})
    \/ ManualPlot /\ FrameExcept({"plot"})

SpecPlot == InitPlotOnly /\ [][NextPlotOnly]_vars

\* test_run_qaoa_circuit over its initial parameters.
InitQaoaOnly == InitQaoa /\ IdleExcept({"qaoa"})

NextQaoaOnly ==
    \/ RunQaoaCircuit /\ FrameExcept({"qaoa"})

SpecQaoa == InitQaoaOnly /\ [][NextQaoaOnly]_vars

\* ----------------------------------------------------------- properties

\* fit_exponential_decay has returned to its caller (or an exception left it).
Returned == pc \in {"returned", "plot", "summary", "done", "raised"}

\* The failure kinds of the specification's error-handling design.
TypedFailureKinds == {"InvalidInput", "InsufficientData", "FitFailure"}

\* All samples carry the same probability.
Flat(p) == \A i, j \in 1..Len(p) : p[i] = p[j]

\* The caller printed a "Fitted T1" line.
ReportedFitted == \E i \in 1..Len(out) : out[i][1] = "Fitted T1"

\* x <= 0 on a float (False for nan).
Le0(x) == IsFin(x) /\ x[2] <= 0

\* A T that callers must treat as invalid: T <= 0 or non-finite.
InvalidT(t) == t # None /\ (Le0(t) \/ ~IsFin(t))

PositiveFinite(x) == IsFin(x) /\ x[2] > 0

\* C1: a call with delays and probabilities of different lengths fails, and
\* the failure the caller gets is of kind InvalidInput (so it can be told
\* apart from InsufficientData and FitFailure).
C1_MismatchedLengthsInvalidInput ==
    (Returned /\ Len(delays) # Len(probabilities))
        => /\ ret = NoneTriple
           /\ ~escaped
           /\ FailureKind(ret) = "InvalidInput"

\* C2: a call with fewer than 3 observations fails with InsufficientData and
\* returns no fit result.
C2_FewObservationsInsufficientData ==
    (Returned /\ Len(delays) = Len(probabilities) /\ Len(delays) < 3)
        => /\ ret = NoneTriple
           /\ FailureKind(ret) = "InsufficientData"

\* C3: a call in which some delay is negative is rejected with InvalidInput
\* and returns no fit result.
C3_NegativeDelayRejected ==
    (Returned /\ \E i \in 1..Len(delays) : delays[i] < 0)
        => /\ ret = NoneTriple
           /\ FailureKind(ret) = "InvalidInput"

\* C4: whenever the optimizer fails (raises, or does not converge, which
\* curve_fit reports by raising), the estimator returns the failure value and
\* no partial result: the three components are all present or all absent,
\* and no exception of the optimizer reaches the caller.
C4_OptimizerFailureNoPartialResult ==
    /\ ~escaped
    /\ pc # "raised"
    /\ Returned =>
          /\ \/ ret = NoneTriple
             \/ (ret[1] # None /\ ret[2] # None /\ ret[3] # NoneTriple
                 /\ \A k \in 1..3 : ret[3][k] # None)
          /\ opt.raised # "none" => ret = NoneTriple

\* C4 witness: the optimizer did not converge and the call has returned the
\* failure value.
C4_Witness ==
    /\ pc = "returned"
    /\ optCalls = 1
    /\ opt.raised = "RuntimeError"
    /\ ret = NoneTriple
    /\ ~escaped

\* C5: for flat data (all probabilities equal) the estimator reports a
\* failure or returns a non-finite T, and run_simple_t1_experiment does not
\* report that outcome as a fitted T1.
C5_FlatDataRejected ==
    (caller = "run_simple_t1_experiment" /\ pc = "done" /\ Flat(probabilities))
        => /\ ret = NoneTriple \/ ~IsFin(ret[1])
           /\ ~ReportedFitted

\* C6: in run_simple_t1_experiment a fitted T that is <= 0 or non-finite is
\* never printed as the fitted T1, never used to draw the fit curve and never
\* returned as the result.
C6_InvalidTNeverPropagated ==
    (caller = "run_simple_t1_experiment" /\ pc = "done" /\ InvalidT(ret[1]))
        => /\ ~ReportedFitted
           /\ drawn = None
           /\ expRet[1] # ret[1]

\* C7: on a successful fit the returned standard error of T is the square
\* root of pcov[1,1] when that entry is a positive finite number and exactly
\* zero otherwise; it is never negative.
C7_StdErrSqrtOrZero ==
    (Returned /\ opt.raised = "none")
        => /\ ret[2] = IF PositiveFinite(opt.pcov11)
                       THEN Sqrt(opt.pcov11) ELSE Fin(0)
           /\ ~(IsFin(ret[2]) /\ ret[2][2] < 0)

\* C9: one call invokes the optimizer at most once (no retry after a
\* failure), and a failure is handed to the caller as a typed failure.
C9_AtMostOneOptimizerCallTypedFailure ==
    /\ optCalls <= 1
    /\ (Returned /\ opt.raised # "none")
          => (~escaped /\ FailureKind(ret) \in TypedFailureKinds)

\* C11: the initial guess of the fit defaults to A=1, T=50e-6, B=0, and a
\* caller can supply a different initial guess, which the optimizer then uses.
C11_InitialGuessDefaultConfigurable ==
    /\ (guess = None /\ optCalls >= 1) => p0 = <<Fin(1), Fin(50), Fin(0)>>
    /\ (guess # None /\ gpc # "bind")
          => /\ gpc = "bound"
             /\ optCalls >= 1 => p0 = guess

\* C12: run_xeb_on_backend returns either (xeb_score, exp_probs_dict) with
\* both components present or (None, None); after any failure of backend
\* lookup, job submission, result retrieval or score computation it returns
\* (None, None), and no exception reaches the caller.
C12_XebPairOrNonePair ==
    /\ ~xescaped
    /\ xpc # "raised"
    /\ xpc = "returned" =>
          /\ \/ (IsNone(xret[1]) /\ IsNone(xret[2]))
             \/ (~IsNone(xret[1]) /\ ~IsNone(xret[2]))
          /\ xexc # "none" => (IsNone(xret[1]) /\ IsNone(xret[2]))
          /\ xexc = "none" => (~IsNone(xret[1]) /\ ~IsNone(xret[2]))

\* C12 witness: the score computation failed (division by a zero total) and
\* the call returned (None, None).
C12_Witness ==
    /\ xpc = "returned"
    /\ xexc = "ZeroDivisionError"
    /\ IsNone(xret[1]) /\ IsNone(xret[2])

\* The number of positions of the list that hold the bitstring k.
Multiplicity(bits, k) == Cardinality({i \in 1..Len(bits) : bits[i] = k})

RECURSIVE WeightedSum(_, _, _, _)
WeightedSum(exp, ideal, bits, keys) ==
    IF keys = {} THEN FZero
    ELSE LET k == CHOOSE x \in keys : TRUE
             term == IF k \in DOMAIN exp /\ k \in DOMAIN ideal
                     THEN FMul(Frac(Multiplicity(bits, k), 1),
                               FMul(exp[k], ideal[k]))
                     ELSE FZero
         IN FAdd(term, WeightedSum(exp, ideal, bits, keys \ {k}))

\* C13: the score is the sum over the bitstrings of the list of
\* p_exp(b) * p_ideal(b); a bitstring missing from either distribution
\* contributes 0, and measured outcomes that are not in the list contribute
\* nothing.
C13_ScoreIsSumOverBitstrings ==
    spc = "done" =>
        sScore = WeightedSum(sExp, sIdeal, sBits,
                             {sBits[i] : i \in 1..Len(sBits)})

\* C13 witness: a score was computed from a list that misses a measured
\* outcome of non-zero weight and holds a bitstring missing from the
\* experimental distribution.
C13_Witness ==
    /\ spc = "done"
    /\ \E k \in DOMAIN sExp \cap DOMAIN sIdeal :
          /\ sExp[k] # FZero /\ sIdeal[k] # FZero
          /\ \A i \in 1..Len(sBits) : sBits[i] # k
    /\ \E i \in 1..Len(sBits) : sBits[i] \notin DOMAIN sExp
    /\ sScore # FZero

\* The backend the documentation of select_backend promises for a type.
PromisedBackend(t, service) ==
    CASE t = "local_noisy" -> "aer_noisy"
      [] t = "local_ideal" -> "aer_ideal"
      [] t = "ibm_simulator" ->
            IF service = "ok" THEN "ibm_simulator" ELSE "aer_ideal"
      [] t = "ibm_real" -> IF service = "ok" THEN "ibm_device" ELSE "aer_noisy"
      [] OTHER -> "aer_noisy"

\* C14: select_backend never raises, whatever the IBM service does, and it
\* returns the local noisy simulator for 'local_noisy', the local ideal one
\* for 'local_ideal', the IBM simulator (on failure the local ideal
\* simulator) for 'ibm_simulator', the least busy IBM device (on failure the
\* local noisy simulator) for 'ibm_real', and the local noisy simulator for
\* any other string.
C14_SelectBackendAlwaysReturns ==
    bscript = "select_backend" =>
        /\ bexc = "none"
        /\ bpc \in {"idle", "call", "handler", "returned"}
        /\ bpc = "returned" => backend = PromisedBackend(btype, bservice)

\* C14 witness: the IBM service failed for 'ibm_real' and select_backend
\* returned the local noisy simulator.
C14_Witness ==
    /\ bscript = "select_backend" /\ btype = "ibm_real"
    /\ bservice # "ok" /\ bcaught = bservice
    /\ bpc = "returned" /\ backend = "aer_noisy"

\* C20: run_t1_experiment with backend_type 'local_ideal' obtains the local
\* ideal Aer backend from get_local_aer_backend without failing and goes on
\* to run the experiment on it.
C20_LocalIdealBackendObtained ==
    (bscript = "run_t1_experiment" /\ btype = "local_ideal" /\ bpc # "call")
        => /\ bexc = "none"
           /\ backend = "aer_ideal"
           /\ bpc = "running" => bran

\* C15: on the backend built by create_crosstalk_backend, a gate of the list
\* applied to a target qubit applies the depolarizing error to each adjacent
\* qubit of the chain (target-1 and target+1 where they exist).
C15_GateErrsOnNeighbours ==
    ctpc = "applied" =>
        ctHit = {q \in 0..NQubits - 1 :
                    q = ctApplied[2] - 1 \/ q = ctApplied[2] + 1}

\* The fraction of the shots in which qubit q was measured as 1.
MeasuredFraction(measured, q) ==
    Frac(SumValues(measured, {m \in DOMAIN measured : m[q] = "1"}),
         SumValues(measured, DOMAIN measured))

\* C16: for every circuit run by simulate_crosstalk_effects and each of the
\* neighbour qubits 0 and 2, the reported error rate equals the fraction of
\* shots in which that qubit was measured as 1.
C16_ErrorRateIsMeasuredFraction ==
    simIdx \in 1..Len(CircuitNames) =>
        \A q \in NeighbourQubits :
            simErrors[QubitKey(q)] = MeasuredFraction(simMeasured, q)

\* The reference rate of the claim: that of the 'reference' result, 0 if
\* there is none.
RefRate(qubit) == IF anaHasRef THEN anaRefIn[qubit] ELSE 0

\* rate is operation rate minus reference rate where that is positive, else 0
IsClippedDifference(rate, opRate, ref) ==
    /\ rate >= 0
    /\ opRate >= ref => rate = opRate - ref
    /\ opRate < ref => rate = 0

\* The operations among the first n whose single-gate result is present.
RECURSIVE PresentOps(_)
PresentOps(n) ==
    IF n = 0 THEN <<>>
    ELSE IF anaPresent[n] THEN Append(PresentOps(n - 1), Operations[n])
    ELSE PresentOps(n - 1)

\* C17: in analyze_crosstalk_results every cross-talk rate (single-gate and
\* 10x, qubit_0 and qubit_2) is max(0, operation rate - reference rate) and so
\* never negative, the reference rate being 0 when there is no 'reference'
\* result; operation_types lists exactly the operations whose single-gate
\* result is present, in the order x, y, z, h, s.
C17_CrosstalkRatesClippedAndOpTypes ==
    anaPc \in {"loop", "done"} =>
        /\ anaIdx >= 1 /\ anaPresent[anaIdx] =>
              \A q \in QubitKeys :
                  IsClippedDifference(anaRates[q], anaSingleIn[q], RefRate(q))
        /\ anaIdx >= 1 /\ anaHasMulti =>
              \A q \in QubitKeys :
                  IsClippedDifference(anaRatesMulti[q], anaMultiIn[q],
                                      RefRate(q))
        /\ anaOpTypes = PresentOps(anaIdx)

\* analysis returned with x, z and s present, y and h absent, a reference
\* above the last operation's rate on qubit_0 and below it on qubit_2.
C17_Witness ==
    /\ anaPc = "done"
    /\ anaOpTypes = <<"x", "z", "s">>
    /\ anaHasRef /\ anaHasMulti
    /\ anaRefIn["qubit_0"] > anaSingleIn["qubit_0"]
    /\ anaRefIn["qubit_2"] < anaSingleIn["qubit_2"]
    /\ anaRates["qubit_0"] = 0
    /\ anaRates["qubit_2"] > 0

\* prob is a fraction in [0, 1]
InUnitInterval(prob) == prob[2] >= 0 /\ prob[2] <= prob[3]

\* C18: simulate_t1_decay always returns, with exactly one result per delay in
\* the order of the delays; in each result count_0 + count_1 = shots, both
\* counts are in 0..shots, and prob_1 = count_1 / shots lies in [0, 1].
C18_OneResultPerDelayCountsAddUp ==
    /\ t1pc # "raised"
    /\ Len(t1Results) <= Len(t1Delays)
    /\ t1pc = "returned" => Len(t1Results) = Len(t1Delays)
    /\ \A i \in 1..Len(t1Results) :
          LET r == t1Results[i]
          IN /\ r.at = i
             /\ r.count_0 + r.count_1 = t1Shots
             /\ r.count_0 \in 0..t1Shots
             /\ r.count_1 \in 0..t1Shots
             /\ r.prob_1 = Frac(r.count_1, t1Shots)
             /\ InUnitInterval(r.prob_1)

\* Returned for the most delays, with a result of all ones, one of all zeros
\* and a mixed one.
C18_Witness ==
    /\ t1pc = "returned"
    /\ Len(t1Results) = MaxDelays
    /\ t1Shots >= 2
    /\ t1Results[1].count_1 = t1Shots
    /\ t1Results[2].count_1 = 0
    /\ t1Results[3].count_0 >= 1 /\ t1Results[3].count_1 >= 1

\* C19: build_max_cut_paulis returns one (Pauli string, weight) pair per
\* graph edge, in edge order: the string has as many characters as the graph
\* has nodes, 'Z' exactly at the positions n-1-i and n-1-j (counted from 0)
\* for the edge (i, j) and 'I' elsewhere, and the weight is that edge's.
C19_OnePauliPerEdgeWithItsWeight ==
    qpc = "returned" =>
        /\ Len(qPauliList) = Len(qEdges)
        /\ \A k \in 1..Len(qPauliList) :
              LET str == qPauliList[k][1]
                  i == qEdges[k][1]
                  j == qEdges[k][2]
              IN /\ Len(str) = qNodes
                 /\ \A pos \in 0..qNodes - 1 :
                       str[pos + 1] =
                           IF pos = qNodes - 1 - i \/ pos = qNodes - 1 - j
                           THEN "Z" ELSE "I"
                 /\ qPauliList[k][2] = qEdges[k][3]

\* C21: after any sequence of constructions and house assignments, every
\* Student object that exists has one of the four houses.
C21_EveryStudentHasValidHouse ==
    /\ \A i \in 1..Len(students) : students[i].house \in Houses
    /\ mpc = "student" => mStudent.house \in Houses

\* Two students exist, one re-housed by an assignment, and an invalid
\* construction and an invalid assignment have been refused.
C21_Witness ==
    /\ Len(students) = MaxStudents
    /\ students[1].house # students[2].house
    /\ stuOp[1] = "assign"
    /\ stuOp[4] \notin Houses

\* C22: assigning a house outside the four valid ones to an existing Student
\* raises ValueError('Invalid house') and leaves its house and name as they
\* were (and every other student too).
C22_InvalidAssignmentRaisesAndKeeps ==
    [][(stuOp' # stuOp /\ stuOp'[1] = "assign" /\ stuOp'[4] \notin Houses)
          => /\ stuExc' = InvalidHouse
             /\ students' = students]_vars

\* An invalid house has just been refused on the second student.
C22_Witness ==
    /\ stuOp = <<"assign", 2, "", "Number four">>
    /\ stuExc = InvalidHouse
    /\ students[2].name = "Draco"
    /\ students[2].house = "Slytherin"

\* C23: in main() the student is never printed, whatever name and house are
\* entered: main() ends in ValueError, raised by the construction or by the
\* assignment of 'Number four'.
C23_MainNeverPrints ==
    /\ mpc # "printed"
    /\ mpc = "raised" => mExc \in {MissingName, InvalidHouse}
    /\ mpc = "student" => ENABLED AssignAndPrint

\* main() got a student and the assignment of 'Number four' ended it.
C23_Witness ==
    /\ mpc = "raised"
    /\ mStudent.name = "Harry"
    /\ mStudent.house = "Gryffindor"
    /\ mExc = InvalidHouse

\* The backends passed so far whose run returned a score.
Succeeded == {i \in 1..Len(rScores) : ~IsNone(rScores[i])}

\* C24: after the loop xeb_results holds exactly the backends whose run
\* returned a non-None score, each with that score; 'No successful XEB
\* measurements obtained.' is printed exactly when every backend failed;
\* otherwise the ranking is in non-increasing score order over those results,
\* the best backend has the maximum score and the worst the minimum.
C24_ResultsAndRanking ==
    /\ {xebResults[k] : k \in 1..Len(xebResults)} =
           {<<rBackends[i], rScores[i]>> : i \in Succeeded}
    /\ Len(xebResults) = Cardinality(Succeeded)
    /\ rpc = "done" =>
          /\ rNoSuccess <=> Succeeded = {}
          /\ ~rNoSuccess =>
                /\ {rRanking[k] : k \in 1..Len(rRanking)} =
                       {xebResults[k] : k \in 1..Len(xebResults)}
                /\ Len(rRanking) = Len(xebResults)
                /\ \A k \in 1..Len(rRanking) - 1 :
                      rRanking[k][2][2] >= rRanking[k + 1][2][2]
                /\ \E i \in Succeeded : rBest = <<rBackends[i], rScores[i]>>
                /\ \E i \in Succeeded : rWorst = <<rBackends[i], rScores[i]>>
                /\ \A i \in Succeeded :
                      /\ rBest[2][2] >= rScores[i][2]
                      /\ rWorst[2][2] <= rScores[i][2]

\* Three backends: one failed, one scored 0, one scored higher; the summary
\* ranks the two that succeeded.
C24_Witness ==
    /\ rpc = "done"
    /\ Len(rBackends) = 3
    /\ IsNone(rScores[1])
    /\ rScores[2] = Fin(0)
    /\ rScores[3] = Fin(MaxXebScore)
    /\ rBest = <<rBackends[3], Fin(MaxXebScore)>>
    /\ rWorst = <<rBackends[2], Fin(0)>>

\* C25: whenever run_xeb_on_backend returns a result, the experimental
\* probabilities are count/total for every measured bitstring and sum to 1;
\* when the counts total 0 it returns (None, None), not a distribution.
C25_ProbabilitiesSumToOneOrNone ==
    (xpc = "returned" /\ xexc \in {"none", "ZeroDivisionError"}) =>
        /\ ~IsNone(xret[1]) =>
              /\ DOMAIN xprobs = DOMAIN xcounts
              /\ \A k \in DOMAIN xcounts :
                    xprobs[k] = Frac(xcounts[k], TotalCounts(xcounts))
              /\ SumProbs(xprobs, DOMAIN xprobs) = Frac(1, 1)
        /\ TotalCounts(xcounts) = 0 =>
              (IsNone(xret[1]) /\ IsNone(xret[2]))

\* The fraction of the shots that left the qubit (0, 1 or 2) in state 1.
FlippedFraction(states, qubit) ==
    Frac(Cardinality({i \in 1..Len(states) : states[i][qubit + 1] = 1}),
         Len(states))

\* (1 - strength)^n * d^n as an integer, strength being a / d
RECURSIVE Survive(_, _)
Survive(strength, n) ==
    IF n = 0 THEN 1 ELSE (strength[3] - strength[2]) * Survive(strength, n - 1)

RECURSIVE IntPow(_, _)
IntPow(b, n) == IF n = 0 THEN 1 ELSE b * IntPow(b, n - 1)

\* C26: for every scenario simulated with shots > 0 the counts sum to shots,
\* every outcome string is in q2 q1 q0 order with the q1 character '0', the
\* error rate of neighbour q in {0, 2} is the fraction of outcomes whose
\* character at index 2-q is '1' (the shots that left q in 1), and
\* expected_crosstalk is 1 - (1 - crosstalk_strength)^num_gates, 0 for 0 gates.
C26_ManualSimulationConsistent ==
    msDone \in 1..MaxScenarios =>
        /\ SumValues(msResult.counts, DOMAIN msResult.counts) = msShots
        /\ msResult.total_shots = msShots
        /\ \A i \in 1..msShots :
              /\ Len(msOutcomes[i]) = 3
              /\ msOutcomes[i][1] = Digit(msStates[i][3])
              /\ msOutcomes[i][2] = "0"
              /\ msOutcomes[i][3] = Digit(msStates[i][1])
              /\ msOutcomes[i] \in DOMAIN msResult.counts
        /\ msResult.qubit_0 = FlippedFraction(msStates, 0)
        /\ msResult.qubit_2 = FlippedFraction(msStates, 2)
        /\ msResult.expected_crosstalk =
              Frac(IntPow(msStrength[3], msGates) - Survive(msStrength, msGates),
                   IntPow(msStrength[3], msGates))
        /\ msGates = 0 => msResult.expected_crosstalk = Frac(0, 1)

\* Two shots of a one-gate scenario: one flipped only qubit 0, the other
\* flipped neither.
C26_Witness ==
    /\ msDone >= 1
    /\ msGates = 1
    /\ msShots = 2
    /\ msStrength = Frac(1, 100)
    /\ msOutcomes = <<<<"0", "0", "1">>, <<"0", "0", "0">>>>
    /\ msResult.qubit_0 = Frac(1, 2)
    /\ msResult.qubit_2 = Frac(0, 1)

\* The cross-talk rates of the scenarios other than 'reference', each
\* scenario's qubit_0 before its qubit_2.
NonReferenceRates ==
    {<<r.scenario, r.qubit_0, r.qubit_2>> :
        r \in {maRates[i] : i \in {j \in 1..Len(maRates) :
                                      maRates[j].scenario # "reference"}}}

\* C27: in analyze_crosstalk_measurements 'reference' gets cross-talk rate 0
\* for both qubits; every scenario's rates are non-negative with average =
\* (qubit_0 + qubit_2) / 2; the overall statistics are computed from the
\* non-reference scenarios only, and statistics stays empty when there is no
\* non-reference scenario.
C27_ReferenceZeroAndStatistics ==
    /\ \A i \in 1..Len(maRates) :
          LET r == maRates[i]
          IN /\ r.scenario = maResults[i][1]
             /\ r.scenario = "reference" => r.qubit_0 = 0 /\ r.qubit_2 = 0
             /\ r.qubit_0 >= 0 /\ r.qubit_2 >= 0
             /\ r.average[2] * 2 = (r.qubit_0 + r.qubit_2) * r.average[3]
    /\ mapc = "done" =>
          /\ Len(maAll) = 2 * Cardinality(NonReferenceRates)
          /\ \A t \in NonReferenceRates :
                \E k \in 1..Len(maAll) - 1 : maAll[k] = t[2] /\ maAll[k + 1] = t[3]
          /\ NonReferenceRates = {} <=> maStatistics.count = 0
          /\ NonReferenceRates # {} =>
                /\ maStatistics.count = Len(maAll)
                /\ maStatistics.mean_crosstalk[2] * Len(maAll) =
                       SumSeq(maAll) * maStatistics.mean_crosstalk[3]
                /\ \A k \in 1..Len(maAll) :
                      /\ maStatistics.min_crosstalk <= maAll[k]
                      /\ maStatistics.max_crosstalk >= maAll[k]
                /\ \E k \in 1..Len(maAll) : maStatistics.min_crosstalk = maAll[k]
                /\ \E k \in 1..Len(maAll) : maStatistics.max_crosstalk = maAll[k]

\* Analysed: a reference with an error on qubit_0 among two other scenarios,
\* one of them below the reference there; the statistics cover four rates.
C27_Witness ==
    /\ mapc = "done"
    /\ Len(maResults) = 3
    /\ maResults[2] = <<"reference", 1, 0>>
    /\ maResults[1][2] = 0
    /\ maResults[3][3] = 1
    /\ maRates[2].qubit_0 = 0
    /\ maStatistics.count = 4
    /\ maStatistics.max_crosstalk = 1

\* C28: for every analysis result named 'T1' the relative error is printed
\* only when the measured T1 is > 0 and the negative-T1 warning otherwise;
\* exactly one of the 'reasonable range' and 'may be unrealistic' messages is
\* printed, the first exactly when 10e-6 <= T1 <= 200e-6; so a T1 <= 0 is
\* always flagged as unrealistic.
C28_T1ReportMessages ==
    (trpc = "results" /\ trDone >= 1 /\ trRows[trDone][1] = "T1") =>
        LET t == trRows[trDone][2]
            positive == (IsFin(t) /\ t[2] >= 1) \/ t = PosInf
            inRange == IsFin(t) /\ t[2] \in ReasonableLow..ReasonableHigh
            warned == "Warning: Negative T1 value indicates fitting issues"
                          \in trPrinted
            reasonable == "T1 value is in reasonable range" \in trPrinted
            unrealistic == "T1 value may be unrealistic" \in trPrinted
        IN /\ "Relative error" \in trPrinted <=> positive
           /\ warned <=> ~positive
           /\ reasonable <=> inRange
           /\ unrealistic <=> ~reasonable
           /\ (IsFin(t) /\ t[2] <= 0) => unrealistic /\ warned

\* A T1 row with value 0 has been reported: warned and flagged unrealistic.
C28_Witness ==
    /\ trpc = "results"
    /\ trDone = 2
    /\ trRows[2] = <<"T1", Fin(0)>>
    /\ "T1 value may be unrealistic" \in trPrinted
    /\ "Relative error" \notin trPrinted

EventAt(e) == {i \in 1..Len(qaEvents) : qaEvents[i] = e}

\* C30: a call of test_run_qaoa_circuit runs the optimizer in a session and
\* ends with objective_func_vals holding exactly one cost per callback
\* invocation, each computed while the session was open, and with the values
\* plotted after the session was closed and the optimizer had returned.
C30_CostsPerCallbackPlottedAfterSession ==
    qapc # "call" =>
        /\ qapc = "returned"
        /\ Len(qaVals) = Cardinality(EventAt("callback"))
        /\ \E o \in EventAt("open"), c \in EventAt("close"),
              r \in EventAt("minimize returned"), q \in EventAt("plot") :
              /\ \A k \in EventAt("callback") : o < k /\ k < c
              /\ c < q /\ r < q

====
